---------------------------- MODULE Spec2Model ----------------------------
(***************************************************************************)
(* Model of Go-tools/internal/tools/shell.go: the command/script execution *)
(* tools (run_command, run_script), the deny list, the output cap and the  *)
(* process environment table.                                              *)
(*                                                                         *)
(* Strings are sequences of one-character strings, so that joining,        *)
(* trimming, splitting, "k=v" formatting and regular-expression matching   *)
(* are computed character by character as the Go code computes them.       *)
(***************************************************************************)
EXTENDS Integers, Sequences, FiniteSets, TLC

(***************************************************************************)
(* Characters and the strings helpers of package strings.                  *)
(***************************************************************************)
Lower == {"a","b","c","d","e","f","g","h","i","j","k","l","m",
          "n","o","p","q","r","s","t","u","v","w","x","y","z"}
Upper == {"A","B","C","D","E","F","G","H","I","J","K","L","M",
          "N","O","P","Q","R","S","T","U","V","W","X","Y","Z"}
Digit == {"0","1","2","3","4","5","6","7","8","9"}
\* \w of RE2: [0-9A-Za-z_]
WordChars == Lower \cup Upper \cup Digit \cup {"_"}
\* \s of RE2: [\t\n\f\r ]; the characters strings.TrimSpace cuts
SpaceChars == {" ", "\t", "\n", "\f", "\r"}

SP == <<" ">>
NL == <<"\n">>

RECURSIVE Join(_, _)
\* strings.Join(elems, sep)
Join(elems, sep) ==
    IF Len(elems) = 0 THEN <<>>
    ELSE IF Len(elems) = 1 THEN elems[1]
    ELSE elems[1] \o sep \o Join(Tail(elems), sep)

RECURSIVE TrimLeft(_)
TrimLeft(s) ==
    IF Len(s) > 0 /\ s[1] \in SpaceChars THEN TrimLeft(Tail(s)) ELSE s

RECURSIVE TrimRight(_)
TrimRight(s) ==
    IF Len(s) > 0 /\ s[Len(s)] \in SpaceChars
    THEN TrimRight(SubSeq(s, 1, Len(s) - 1)) ELSE s

\* strings.TrimSpace(s)
TrimSpace(s) == TrimRight(TrimLeft(s))

\* strings.HasPrefix(s, prefix)
HasPrefix(s, prefix) ==
    Len(s) >= Len(prefix) /\ SubSeq(s, 1, Len(prefix)) = prefix

\* strings.Index(s, c) for a one-character c: 1-based, 0 when absent
IndexChar(s, c) ==
    IF \E i \in 1..Len(s) : s[i] = c
    THEN CHOOSE i \in 1..Len(s) : s[i] = c /\ \A j \in 1..(i - 1) : s[j] # c
    ELSE 0

RECURSIVE SplitLines(_)
\* strings.Split(s, "\n"): always at least one element
SplitLines(s) ==
    LET i == IndexChar(s, "\n")
    IN  IF i = 0 THEN <<s>>
        ELSE <<SubSeq(s, 1, i - 1)>> \o SplitLines(SubSeq(s, i + 1, Len(s)))

(***************************************************************************)
(* Regular expressions (package regexp, RE2 syntax) as syntax trees, and  *)
(* unanchored matching as regexp.MatchString does it.  Ends(re, s, i) is  *)
(* the set of positions j such that re matches s[i..j-1].                  *)
(***************************************************************************)
Lit(c)   == [t |-> "lit", c |-> c]
Cls(S)   == [t |-> "cls", s |-> S]
Dot      == [t |-> "dot"]
WordB    == [t |-> "wordb"]
EndText  == [t |-> "endtext"]
Cat(xs)  == [t |-> "cat", xs |-> xs]
Alt(xs)  == [t |-> "alt", xs |-> xs]
Star(x)  == [t |-> "star", x |-> x]
Plus(x)  == [t |-> "plus", x |-> x]
\* a literal string
Str(s)   == Cat([i \in 1..Len(s) |-> Lit(s[i])])
Spaces   == Cls(SpaceChars)

IsWordAt(s, i) == i >= 1 /\ i <= Len(s) /\ s[i] \in WordChars

RECURSIVE Ends(_, _, _)
RECURSIVE CatEnds(_, _, _, _)
RECURSIVE StarEnds(_, _, _, _)

Ends(re, s, i) ==
    CASE re.t = "lit"     -> IF i <= Len(s) /\ s[i] = re.c THEN {i + 1} ELSE {}
      [] re.t = "cls"     -> IF i <= Len(s) /\ s[i] \in re.s THEN {i + 1} ELSE {}
      [] re.t = "dot"     -> IF i <= Len(s) /\ s[i] # "\n" THEN {i + 1} ELSE {}
      [] re.t = "wordb"   -> IF IsWordAt(s, i - 1) # IsWordAt(s, i) THEN {i} ELSE {}
      [] re.t = "endtext" -> IF i = Len(s) + 1 THEN {i} ELSE {}
      [] re.t = "cat"     -> CatEnds(re.xs, 1, s, {i})
      [] re.t = "alt"     -> UNION {Ends(re.xs[k], s, i) : k \in 1..Len(re.xs)}
      [] re.t = "star"    -> StarEnds(re.x, s, {i}, {i})
      [] re.t = "plus"    -> LET first == Ends(re.x, s, i)
                             IN  StarEnds(re.x, s, first, first)

\* the positions reachable from `from` through xs[k], xs[k+1], ...
CatEnds(xs, k, s, from) ==
    IF k > Len(xs) \/ from = {} THEN from
    ELSE CatEnds(xs, k + 1, s, UNION {Ends(xs[k], s, i) : i \in from})

\* the positions reachable from `frontier` through zero or more x
StarEnds(x, s, frontier, acc) ==
    LET next == UNION {Ends(x, s, i) : i \in frontier} \ acc
    IN  IF next = {} THEN acc ELSE StarEnds(x, s, next, acc \cup next)

\* (*Regexp).MatchString(s): does re match anywhere in s
MatchString(re, s) == \E i \in 1..(Len(s) + 1) : Ends(re, s, i) # {}


(***************************************************************************)
(* Safety: the deny list.                                                  *)
(***************************************************************************)
\* In the fork-bomb pattern `\b:(){ :|:& };:` the `|` is RE2's alternation,
\* `()` an empty group and `{`, `}` literals: it reads (\b:(){ :)|(:& };:).
\* the root-delete rule without its anchor at the end of the text
rootDeleteUnanchored ==
    [src |-> "\\brm\\s+-rf\\s+/\\s*$",
     re  |-> Cat(<<WordB, Str(<<"r","m">>), Plus(Spaces), Str(<<"-","r","f">>), Plus(Spaces),
                   Lit("/")>>)]

\* `\brm\s+-rf\s+/\s*$`
rootDeleteRule ==
    [src |-> "\\brm\\s+-rf\\s+/\\s*$",
     re  |-> Cat(<<WordB, Str(<<"r","m">>), Plus(Spaces), Str(<<"-","r","f">>), Plus(Spaces),
                   Lit("/"), Star(Spaces), EndText>>)]

defaultDenyPatterns == <<
    rootDeleteRule,
    [src |-> "\\bmkfs\\b",
     re  |-> Cat(<<WordB, Str(<<"m","k","f","s">>), WordB>>)],
    [src |-> "\\bdd\\s+.*of=/dev/",
     re  |-> Cat(<<WordB, Str(<<"d","d">>), Plus(Spaces), Star(Dot), Str(<<"o","f","=","/","d","e","v","/">>)>>)],
    [src |-> ">\\s*/dev/sd[a-z]",
     re  |-> Cat(<<Lit(">"), Star(Spaces), Str(<<"/","d","e","v","/","s","d">>), Cls(Lower)>>)],
    [src |-> "\\b:(){ :|:& };:",
     re  |-> Alt(<<Cat(<<WordB, Lit(":"), Cat(<<>>), Str(<<"{"," ",":">>)>>),
                   Str(<<":","&"," ","}",";",":">>)>>)],
    [src |-> "\\bshutdown\\b",
     re  |-> Cat(<<WordB, Str(<<"s","h","u","t","d","o","w","n">>), WordB>>)],
    [src |-> "\\breboot\\b",
     re  |-> Cat(<<WordB, Str(<<"r","e","b","o","o","t">>), WordB>>)],
    [src |-> "\\bsystemctl\\s+(start|stop|disable|enable|mask)\\b",
     re  |-> Cat(<<WordB, Str(<<"s","y","s","t","e","m","c","t","l">>), Plus(Spaces),
                   Alt(<<Str(<<"s","t","a","r","t">>), Str(<<"s","t","o","p">>), Str(<<"d","i","s","a","b","l","e">>),
                         Str(<<"e","n","a","b","l","e">>), Str(<<"m","a","s","k">>)>>), WordB>>)] >>

NotDenied == [blocked |-> FALSE, pattern |-> ""]

RECURSIVE isDeniedFrom(_, _)
\* the loop of isDenied from pattern i on: the first pattern that matches
isDeniedFrom(fullCmd, i) ==
    IF i > Len(defaultDenyPatterns) THEN NotDenied
    ELSE IF MatchString(defaultDenyPatterns[i].re, fullCmd)
         THEN [blocked |-> TRUE, pattern |-> defaultDenyPatterns[i].src]
         ELSE isDeniedFrom(fullCmd, i + 1)

\* isDenied with the loop left after its first pattern
isDeniedFirstOnly(fullCmd) ==
    IF MatchString(defaultDenyPatterns[1].re, fullCmd)
    THEN [blocked |-> TRUE, pattern |-> defaultDenyPatterns[1].src]
    ELSE NotDenied

isDenied(fullCmd) == isDeniedFrom(fullCmd, 1)

(***************************************************************************)
(* Captured output.  A byte stream is kept run-length encoded: a sequence  *)
(* of runs [src, late, n], n bytes written by src ("child", the spawned    *)
(* process, or "desc", a process it started), late telling whether they    *)
(* were written after the call's context was done.  Adjacent runs of the   *)
(* same writer are one run, so equal streams have equal encodings.         *)
(***************************************************************************)
defaultTimeoutMs == 30000
maxOutputBytes == 1048576

RECURSIVE BytesLen(_)
\* len(data)
BytesLen(data) ==
    IF Len(data) = 0 THEN 0 ELSE data[1].n + BytesLen(Tail(data))

RECURSIVE Take(_, _)
\* data[:k], for k <= len(data)
Take(data, k) ==
    IF k = 0 \/ Len(data) = 0 THEN <<>>
    ELSE IF data[1].n <= k THEN <<data[1]>> \o Take(Tail(data), k - data[1].n)
    ELSE <<[data[1] EXCEPT !.n = k]>>

\* (*bytes.Buffer).Write: the buffer with one more run at its end
BufWrite(data, run) ==
    IF Len(data) > 0 /\ data[Len(data)].src = run.src /\ data[Len(data)].late = run.late
    THEN [data EXCEPT ![Len(data)].n = @ + run.n]
    ELSE Append(data, run)

\* capOutput cutting at >= instead of >
capOutputAtEqual(data) ==
    IF BytesLen(data) >= maxOutputBytes
    THEN [text |-> Take(data, maxOutputBytes), truncated |-> TRUE]
    ELSE [text |-> data, truncated |-> FALSE]

capOutput(data) ==
    IF BytesLen(data) > maxOutputBytes
    THEN [text |-> Take(data, maxOutputBytes), truncated |-> TRUE]
    ELSE [text |-> data, truncated |-> FALSE]

(***************************************************************************)
(* The environment: a list of "key=value" strings, as package syscall      *)
(* keeps it and as a child process receives it.                            *)
(***************************************************************************)
EQ == <<"=">>

\* the entry k+"="+v
EnvEntry(k, v) == k \o EQ \o v

\* the key of an entry: what precedes its first '=' (the whole entry if none)
EntryKey(kv) ==
    LET i == IndexChar(kv, "=") IN IF i = 0 THEN kv ELSE SubSeq(kv, 1, i - 1)

\* the value of an entry: what follows its first '='
EntryValue(kv) ==
    LET i == IndexChar(kv, "=") IN IF i = 0 THEN <<>> ELSE SubSeq(kv, i + 1, Len(kv))

\* is some entry of env an entry for key
HasKey(env, key) == \E i \in 1..Len(env) : EntryKey(env[i]) = key

\* a lookup that returns the value short of its last byte
LookupEnvTorn(env, key) ==
    IF key # <<>> /\ HasKey(env, key)
    THEN LET val == EntryValue(env[CHOOSE i \in 1..Len(env) : EntryKey(env[i]) = key])
         IN  [exists |-> TRUE, val |-> SubSeq(val, 1, Len(val) - 1)]
    ELSE [exists |-> FALSE, val |-> <<>>]

\* os.LookupEnv on the list env: the value of the first entry for key
LookupEnv(env, key) ==
    IF key # <<>> /\ HasKey(env, key)
    THEN [exists |-> TRUE,
          val |-> EntryValue(env[CHOOSE i \in 1..Len(env) :
                      /\ EntryKey(env[i]) = key
                      /\ \A j \in 1..(i - 1) : EntryKey(env[j]) # key])]
    ELSE [exists |-> FALSE, val |-> <<>>]

\* os.Setenv refuses (EINVAL) an empty key and a key holding '='
SetenvOK(key) == key # <<>> /\ IndexChar(key, "=") = 0

\* os.Setenv refuses (EINVAL) a key or a value holding the byte 0
NoNUL(bytes) == \A i \in 1..Len(bytes) : bytes[i] # "x00"

\* a write that appends the entry and leaves an older one of the key in place
SetenvAppend(env, key, value) == Append(env, EnvEntry(key, value))

\* os.Setenv(key, value) on the list env: replace the entry of key, or append
Setenv(env, key, value) ==
    IF HasKey(env, key)
    THEN [i \in 1..Len(env) |->
             IF EntryKey(env[i]) = key THEN EnvEntry(key, value) ELSE env[i]]
    ELSE Append(env, EnvEntry(key, value))

RECURSIVE dedupEnv(_)
\* os/exec keeps, for each key, only the last entry of the list (in place)
dedupEnv(env) ==
    IF Len(env) = 0 THEN <<>>
    ELSE IF HasKey(Tail(env), EntryKey(env[1])) THEN dedupEnv(Tail(env))
    ELSE <<env[1]>> \o dedupEnv(Tail(env))

(***************************************************************************)
(* Text on the wire and in the process.  A JSON string is a sequence of    *)
(* characters; a Go string is the sequence of the bytes of its UTF-8       *)
(* encoding.  An ASCII character and its byte are the same one-letter      *)
(* string; U+00E9 is the two bytes xC3 xA9 and U+0000 the byte x00.        *)
(***************************************************************************)
\* the UTF-8 bytes of one character
RuneBytes(ch) ==
    IF ch = "U+00E9" THEN <<"xC3", "xA9">>
    ELSE IF ch = "U+0000" THEN <<"x00">>
    ELSE <<ch>>

\* an encoding that drops every character that is not ASCII
EncodeASCII(chars) ==
    SelectSeq(chars, LAMBDA ch : ch \notin {"U+00E9", "U+0000", "U+FFFD"})

RECURSIVE EncodeUTF8(_)
\* json.Unmarshal of a JSON string into a Go string
EncodeUTF8(chars) ==
    IF Len(chars) = 0 THEN <<>>
    ELSE RuneBytes(Head(chars)) \o EncodeUTF8(Tail(chars))

\* json.Marshal of a Go string: each byte that is not part of a well-formed
\* sequence becomes U+FFFD
DecodeUTF8(b) ==
    LET second(i) == i > 1 /\ b[i] = "xA9" /\ b[i - 1] = "xC3"
        first(i)  == i < Len(b) /\ b[i] = "xC3" /\ b[i + 1] = "xA9"
        rune(i)   == IF first(i) THEN "U+00E9"
                     ELSE IF second(i) THEN "second"
                     ELSE IF b[i] \in {"xC3", "xA9"} THEN "U+FFFD"
                     ELSE IF b[i] = "x00" THEN "U+0000"
                     ELSE b[i]
    IN  SelectSeq([i \in 1..Len(b) |-> rune(i)], LAMBDA r : r # "second")

\* strings.ToUpper(s)
ToUpper(s) ==
    [i \in 1..Len(s) |->
        IF s[i] \in Lower
        THEN (<<"A","B","C","D","E","F","G","H","I","J","K","L","M",
                "N","O","P","Q","R","S","T","U","V","W","X","Y","Z">>)
                 [CHOOSE k \in 1..26 :
                     (<<"a","b","c","d","e","f","g","h","i","j","k","l","m",
                        "n","o","p","q","r","s","t","u","v","w","x","y","z">>)[k] = s[i]]
        ELSE s[i]]

\* strings.Contains(s, substr)
Contains(s, substr) ==
    \E i \in 1..(Len(s) - Len(substr) + 1) :
        SubSeq(s, i, i + Len(substr) - 1) = substr

\* strings.Repeat("*", n)
Stars(n) == [i \in 1..n |-> "*"]

(***************************************************************************)
(* Sensitive keys and the masking of their values.                         *)
(***************************************************************************)
sensitiveEnvKeys ==
    { <<"A","W","S","_","S","E","C","R","E","T","_","A","C","C","E","S","S","_","K","E","Y">>, <<"A","W","S","_","S","E","S","S","I","O","N","_","T","O","K","E","N">>, <<"G","I","T","H","U","B","_","T","O","K","E","N">>,
      <<"G","H","_","T","O","K","E","N">>, <<"O","P","E","N","A","I","_","A","P","I","_","K","E","Y">>, <<"A","N","T","H","R","O","P","I","C","_","A","P","I","_","K","E","Y">>,
      <<"D","A","T","A","B","A","S","E","_","U","R","L">>, <<"D","B","_","P","A","S","S","W","O","R","D">>, <<"S","E","C","R","E","T","_","K","E","Y">>, <<"P","R","I","V","A","T","E","_","K","E","Y">>,
      <<"A","P","I","_","K","E","Y">>, <<"A","P","I","_","S","E","C","R","E","T">>, <<"P","A","S","S","W","O","R","D">>, <<"T","O","K","E","N">>,
      <<"S","T","R","I","P","E","_","S","E","C","R","E","T","_","K","E","Y">>, <<"S","E","N","D","G","R","I","D","_","A","P","I","_","K","E","Y">> }

sensitivePatterns ==
    << <<"S","E","C","R","E","T">>, <<"P","A","S","S","W","O","R","D">>, <<"P","A","S","S","W","D">>, <<"T","O","K","E","N">>, <<"A","P","I","_","K","E","Y">>,
       <<"A","P","I","K","E","Y">>, <<"P","R","I","V","A","T","E","_","K","E","Y">>, <<"C","R","E","D","E","N","T","I","A","L">>, <<"A","U","T","H">> >>

\* the classification without the upper-casing of the key
isSensitiveAsWritten(key) ==
    \/ key \in sensitiveEnvKeys
    \/ \E i \in 1..Len(sensitivePatterns) : Contains(key, sensitivePatterns[i])

isSensitiveEnvKey(key) ==
    LET upper == ToUpper(key)
    IN  \/ upper \in sensitiveEnvKeys
        \/ \E i \in 1..Len(sensitivePatterns) : Contains(upper, sensitivePatterns[i])

\* no masking at all
redactNothing(val) == val

\* redactValue on the bytes of val
redactValue(val) ==
    IF Len(val) <= 4 THEN Stars(4)
    ELSE SubSeq(val, 1, 2) \o Stars(Len(val) - 4) \o SubSeq(val, Len(val) - 1, Len(val))

\* an entry masked whatever include_sensitive says
envEntryAlwaysMasked(key, val, includeSensitive) ==
    IF isSensitiveEnvKey(key)
    THEN [key |-> DecodeUTF8(key), value |-> DecodeUTF8(redactValue(val)),
          redacted |-> TRUE]
    ELSE [key |-> DecodeUTF8(key), value |-> DecodeUTF8(val), redacted |-> FALSE]

\* one EnvEntry of a get_env response, as the caller reads it from the JSON
envEntryOf(key, val, includeSensitive) ==
    IF isSensitiveEnvKey(key) /\ ~includeSensitive
    THEN [key |-> DecodeUTF8(key), value |-> DecodeUTF8(redactValue(val)),
          redacted |-> TRUE]
    ELSE [key |-> DecodeUTF8(key), value |-> DecodeUTF8(val), redacted |-> FALSE]

RECURSIVE entriesOfKeys(_, _, _)
\* the entries of the explicit-keys branch: the listed keys that are set
entriesOfKeys(keys, env, includeSensitive) ==
    IF Len(keys) = 0 THEN <<>>
    ELSE LET key == EncodeUTF8(Head(keys))
             rest == entriesOfKeys(Tail(keys), env, includeSensitive)
         IN  IF LookupEnv(env, key).exists
             THEN <<envEntryOf(key, LookupEnv(env, key).val, includeSensitive)>> \o rest
             ELSE rest

RECURSIVE entriesOfAll(_, _)
\* the entries of the all-variables branch: every line of os.Environ() that
\* has an '='
entriesOfAll(env, includeSensitive) ==
    IF Len(env) = 0 THEN <<>>
    ELSE LET rest == entriesOfAll(Tail(env), includeSensitive)
         IN  IF IndexChar(env[1], "=") = 0 THEN rest
             ELSE <<envEntryOf(EntryKey(env[1]), EntryValue(env[1]), includeSensitive)>>
                      \o rest

\* the branch test on the number of keys alone, an empty list taken as a list
getEnvOutOfGiven(in, env) ==
    LET entries == IF in.hasKeys
                   THEN entriesOfKeys(in.keys, env, in.include_sensitive)
                   ELSE entriesOfAll(env, in.include_sensitive)
    IN  [variables |-> entries, count |-> Len(entries)]

\* the GetEnvOutput of a request in on the environment env
getEnvOut(in, env) ==
    LET entries == IF Len(in.keys) > 0
                   THEN entriesOfKeys(in.keys, env, in.include_sensitive)
                   ELSE entriesOfAll(env, in.include_sensitive)
    IN  [variables |-> entries, count |-> Len(entries)]

(***************************************************************************)
(* Shell resolution.                                                       *)
(***************************************************************************)
UpperSeq == <<"A","B","C","D","E","F","G","H","I","J","K","L","M",
              "N","O","P","Q","R","S","T","U","V","W","X","Y","Z">>
LowerSeq == <<"a","b","c","d","e","f","g","h","i","j","k","l","m",
              "n","o","p","q","r","s","t","u","v","w","x","y","z">>

\* strings.ToLower(s)
ToLower(s) ==
    [i \in 1..Len(s) |->
        IF s[i] \in Upper
        THEN LowerSeq[CHOOSE k \in 1..26 : UpperSeq[k] = s[i]] ELSE s[i]]

\* exec.LookPath(name) on a search path holding the binaries `installed`
LookPath(name, installed) ==
    IF name \in installed
    THEN [found |-> TRUE, path |-> <<"/","u","s","r","/","b","i","n","/">> \o name]
    ELSE [found |-> FALSE, path |-> <<>>]

\* the first of names that is installed, with flag; else the binding `last`
FirstInstalled(names, flag, installed, last) ==
    IF \E i \in 1..Len(names) : names[i] \in installed
    THEN [shell |-> LookPath(names[CHOOSE i \in 1..Len(names) :
                        /\ names[i] \in installed
                        /\ \A j \in 1..(i - 1) : names[j] \notin installed],
                     installed).path,
          shellArg |-> flag]
    ELSE last

\* a default that prefers sh to zsh to bash
defaultShellShFirst(goos, installed) ==
    IF goos = "windows"
    THEN FirstInstalled(<<<<"p","w","s","h">>, <<"p","o","w","e","r","s","h","e","l","l">>>>, "-Command", installed,
                        [shell |-> <<"c","m","d">>, shellArg |-> "/C"])
    ELSE FirstInstalled(<<<<"s","h">>, <<"z","s","h">>, <<"b","a","s","h">>>>, "-c", installed,
                        [shell |-> <<"/","b","i","n","/","s","h">>, shellArg |-> "-c"])

\* the default of resolveShell: the best available shell of the platform
defaultShell(goos, installed) ==
    IF goos = "windows"
    THEN FirstInstalled(<<<<"p","w","s","h">>, <<"p","o","w","e","r","s","h","e","l","l">>>>, "-Command", installed,
                        [shell |-> <<"c","m","d">>, shellArg |-> "/C"])
    ELSE FirstInstalled(<<<<"b","a","s","h">>, <<"z","s","h">>, <<"s","h">>>>, "-c", installed,
                        [shell |-> <<"/","b","i","n","/","s","h">>, shellArg |-> "-c"])

\* a resolution that compares the requested name as it is written
resolveShellAsWritten(requested, goos, installed) ==
    LET dflt == defaultShell(goos, installed)
    IN  IF requested \in {<<"b","a","s","h">>, <<"z","s","h">>, <<"s","h">>, <<"f","i","s","h">>}
        THEN FirstInstalled(<<requested>>, "-c", installed, dflt)
        ELSE IF requested \in {<<"p","w","s","h">>, <<"p","o","w","e","r","s","h","e","l","l">>}
        THEN FirstInstalled(<<<<"p","w","s","h">>, <<"p","o","w","e","r","s","h","e","l","l">>>>, "-Command", installed, dflt)
        ELSE dflt

resolveShell(requested, goos, installed) ==
    LET r == ToLower(requested)
        dflt == defaultShell(goos, installed)
    IN  IF r \in {<<"b","a","s","h">>, <<"z","s","h">>, <<"s","h">>, <<"f","i","s","h">>}
        THEN FirstInstalled(<<r>>, "-c", installed, dflt)
        ELSE IF r \in {<<"p","w","s","h">>, <<"p","o","w","e","r","s","h","e","l","l">>}
        THEN FirstInstalled(<<<<"p","w","s","h">>, <<"p","o","w","e","r","s","h","e","l","l">>>>, "-Command", installed, dflt)
        ELSE dflt

(***************************************************************************)
(* The file system the working-directory check looks at.                   *)
(***************************************************************************)
Getwd == <<"/">>
ExistingDirs == {<<"/">>, <<"/","w">>}

\* filepath.Abs(path): a relative path is joined to the working directory
Abs(path) == IF path[1] = "/" THEN path ELSE Getwd \o path

\* os.Stat(absPath) succeeds and info.IsDir()
IsDir(absPath) == absPath \in ExistingDirs

(***************************************************************************)
(* Requests.  env_overrides is a map: a function from keys to values.      *)
(***************************************************************************)
KX   == <<"X">>
KY   == <<"Y">>
KPWD == <<"P","W","D">>
NoOverrides == <<>>

Override1(k, v) == [x \in {k} |-> v]
Override2(k1, v1, k2, v2) == [x \in {k1, k2} |-> IF x = k1 THEN v1 ELSE v2]

\* the override maps requests are drawn from; "X=Y" and "" are no valid names
OverrideMaps ==
    { NoOverrides,
      Override1(KX, <<"2">>),
      Override2(KX, <<"2">>, KY, <<"2">>),
      Override1(<<"X","=","Y">>, <<"2">>),
      Override1(<<>>, <<"2">>) }

\* cmd and args of the commands that match no deny pattern
AllowedCommands ==
    { [cmd |-> <<"e","c","h","o">>, args |-> <<<<"h","i">>>>],
      [cmd |-> <<"r","m">>, args |-> <<<<"-","r","f">>, <<"/">>, <<"x">>>>],
      [cmd |-> <<"r","m">>, args |-> <<<<"-","r","f">>, <<"/">>, <<"-","-","n","o","-","p","r","e","s","e","r","v","e","-","r","o","o","t">>>>],
      [cmd |-> <<"r","m">>, args |-> <<<<"-","f","r">>, <<"/">>>>],
      [cmd |-> <<"r","e","b","o","o","t","e","r">>, args |-> <<>>] }

\* cmd and args of commands that match a deny pattern, one per pattern at least
DeniedCommands ==
    { [cmd |-> <<"r","m">>, args |-> <<<<"-","r","f">>, <<"/">>>>],
      [cmd |-> <<"r","m"," ","-","r","f"," ","/">>, args |-> <<>>],
      [cmd |-> <<"r","m">>, args |-> <<<<"-","r","f">>, <<"/">>, <<" ">>>>],
      [cmd |-> <<"m","k","f","s",".","e","x","t","4">>, args |-> <<<<"/","d","e","v","/","s","d","a","1">>>>],
      [cmd |-> <<"d","d">>, args |-> <<<<"i","f","=","/","d","e","v","/","z","e","r","o">>, <<"o","f","=","/","d","e","v","/","s","d","a">>>>],
      [cmd |-> <<"s","h">>, args |-> <<<<"-","c">>, <<"e","c","h","o"," ","x"," ",">","/","d","e","v","/","s","d","a">>>>],
      [cmd |-> <<"s","h">>, args |-> <<<<"-","c">>, <<":","(",")","{"," ",":","|",":","&"," ","}",";",":">>>>],
      [cmd |-> <<"s","h","u","t","d","o","w","n">>, args |-> <<<<"n","o","w">>>>],
      [cmd |-> <<"r","e","b","o","o","t">>, args |-> <<>>],
      [cmd |-> <<"s","y","s","t","e","m","c","t","l">>, args |-> <<<<"s","t","o","p">>, <<"s","s","h","d">>>>] }

\* working directories: none, a directory (absolute, relative), a missing one
LiveCwds == {<<>>, <<"/","w">>, <<"w">>}
BadCwds  == {<<"/","n">>}

\* timeout_ms: negative, absent (Go's zero value), positive
TimeoutInputs == {-1, 0, 100}

RunCommandInput(c, w, e, t) ==
    [tool |-> "run_command", cmd |-> c.cmd, args |-> c.args, cwd |-> w,
     env_overrides |-> e, timeout_ms |-> t]

\* the requests of the policy runs: every denied command and the empty
\* one under every cwd, override map and timeout; the allowed commands
PolicyCommandInputs ==
    {RunCommandInput(c, w, e, t) :
        c \in DeniedCommands \cup {[cmd |-> <<>>, args |-> <<>>]},
        w \in {<<>>, <<"/","w">>} \cup BadCwds,
        e \in {NoOverrides, Override1(KX, <<"2">>)}, t \in TimeoutInputs}
    \cup {RunCommandInput(c, w, NoOverrides, t) :
        c \in AllowedCommands, w \in {<<>>} \cup BadCwds, t \in TimeoutInputs}

\* the requests of the environment runs: every cwd and override map
EnvCommandInputs ==
    {RunCommandInput([cmd |-> <<"e","c","h","o">>, args |-> <<<<"h","i">>>>], w, e, 0) :
        w \in LiveCwds, e \in OverrideMaps}

\* the requests of the execution runs
CoreCommandInputs ==
    {RunCommandInput(c, <<>>, NoOverrides, 100) :
        c \in {[cmd |-> <<"e","c","h","o">>, args |-> <<<<"h","i">>>>],
                [cmd |-> <<"r","e","b","o","o","t">>, args |-> <<>>]}}

\* scripts no line of which is checked and matches
AllowedScripts ==
    { <<"e","c","h","o"," ","a","\n","e","c","h","o"," ","b">>,
      <<"#"," ","r","e","b","o","o","t","\n","\n"," "," ","e","c","h","o"," ","a">>,
      <<"\n">> }

\* scripts with a line that is checked and matches
DeniedScripts ==
    { <<"e","c","h","o"," ","a","\n"," "," ","r","e","b","o","o","t"," ","\n","m","k","f","s"," ","x">>,
      <<" ","#"," ","x","\n","r","m"," ","-","r","f"," ","/"," "," ","\n">>,
      <<"e","c","h","o"," ","a"," ","#"," ","s","h","u","t","d","o","w","n">> }

ShellInputs == {<<>>, <<"b","a","s","h">>, <<"Z","S","H">>, <<"p","w","s","h">>, <<"k","s","h">>}

RunScriptInput(s, sh, w, e, t) ==
    [tool |-> "run_script", script |-> s, shell |-> sh, cwd |-> w,
     env_overrides |-> e, timeout_ms |-> t]

PolicyScriptInputs ==
    {RunScriptInput(s, <<>>, w, e, t) :
        s \in DeniedScripts \cup {<<>>},
        w \in {<<>>} \cup BadCwds,
        e \in {NoOverrides, Override1(KX, <<"2">>)}, t \in TimeoutInputs}
    \cup {RunScriptInput(s, sh, w, NoOverrides, 0) :
        s \in AllowedScripts, sh \in ShellInputs, w \in {<<>>} \cup BadCwds}
    \cup {RunScriptInput(<<"e","c","h","o"," ","a","\n","e","c","h","o"," ","b">>, <<>>, <<>>, NoOverrides, t) :
        t \in TimeoutInputs}

EnvScriptInputs ==
    {RunScriptInput(<<"e","c","h","o"," ","a","\n","e","c","h","o"," ","b">>, <<>>, w, e, 0) :
        w \in {<<>>, <<"/","w">>}, e \in {NoOverrides, Override1(KX, <<"2">>)}}

CoreScriptInputs ==
    {RunScriptInput(s, <<>>, <<>>, NoOverrides, 0) :
        s \in {<<"e","c","h","o"," ","a","\n","e","c","h","o"," ","b">>, <<"e","c","h","o"," ","a","\n"," "," ","r","e","b","o","o","t"," ","\n","m","k","f","s"," ","x">>}}

\* the binaries the search path may hold when a shell is resolved
InstalledSets ==
    { {<<"b","a","s","h">>, <<"z","s","h">>, <<"s","h">>}, {<<"s","h">>}, {<<"p","w","s","h">>}, {} }
CoreInstalled == {<<"b","a","s","h">>, <<"z","s","h">>, <<"s","h">>}

\* the keys of the set_env and get_env requests: in the exact-name set, in
\* it but with no pattern in them, sensitive by a pattern in mixed case, one
\* letter longer than an exact name, plain, empty, and holding '='
KApiKey == <<"A","P","I","_","K","E","Y">>
KDbUrl  == <<"D","A","T","A","B","A","S","E","_","U","R","L">>
KOAuth  == <<"o","A","u","t","h">>
KDbUrls == <<"d","a","t","a","b","a","s","e","_","u","r","l","s">>
KUnset  == <<"N","O","P","E">>
StoreKeys == {KApiKey, KDbUrl, KOAuth, KDbUrls, KX, <<>>, <<"A","=","B">>}

\* the values written: empty, of 4 and of 5 bytes, of 5 bytes with a '*' in
\* the middle, of 5 characters the second of which takes two bytes, and one
\* holding U+0000
StoreValues ==
    { <<>>, <<"a","b","c","d">>, <<"a","b","c","d","e">>, <<"a","b","*","c","d">>,
      <<"a", "U+00E9", "b", "c", "d">>, <<"a", "U+0000">> }

\* keys is omitted (hasKeys false) or a list, which may be empty
GetEnvInput(hasKeys, keys, includeSensitive) ==
    [hasKeys |-> hasKeys, keys |-> keys, include_sensitive |-> includeSensitive]

KeyLists ==
    { <<>>, <<KApiKey>>, <<KDbUrl>>, <<KOAuth>>, <<KDbUrls>>, <<KX>>,
      <<KApiKey, KUnset, KX>>, <<KX, KX>> }

GetEnvInputs ==
    {GetEnvInput(FALSE, <<>>, b) : b \in BOOLEAN}
    \cup {GetEnvInput(TRUE, ks, b) : ks \in KeyLists, b \in BOOLEAN}

\* the shell names of the resolution runs: none, each known name (some in
\* another case), and an unknown one
ShellNames ==
    { <<>>, <<"b","a","s","h">>, <<"Z","S","H">>, <<"s","h">>, <<"f","i","s","h">>, <<"p","w","s","h">>, <<"P","o","w","e","r","S","h","e","l","l">>, <<"k","s","h">> }

\* the search paths of the resolution runs
ShellInstalledSets ==
    { {<<"b","a","s","h">>, <<"z","s","h">>, <<"s","h">>}, {<<"s","h">>}, {<<"z","s","h">>, <<"f","i","s","h">>}, {<<"p","w","s","h">>},
      {<<"p","o","w","e","r","s","h","e","l","l">>}, {<<"p","w","s","h">>, <<"p","o","w","e","r","s","h","e","l","l">>}, {<<"p","o","w","e","r","s","h","e","l","l">>, <<"b","a","s","h">>}, {} }

ShellScriptInputs ==
    {RunScriptInput(<<"e","c","h","o"," ","a">>, sh, <<>>, NoOverrides, 0) : sh \in ShellNames}

(***************************************************************************)
(* Bounds.                                                                 *)
(***************************************************************************)
\* writes of the child and of its descendants during one call
MaxWrites == 2
\* set_env requests served
MaxSetEnv == 1

(***************************************************************************)
(* State.                                                                  *)
(***************************************************************************)
VARIABLES
    goos,      \* runtime.GOOS of the build
    environ,   \* the process-wide environment, os.Environ()
    setCount,  \* set_env requests served so far
    written,   \* history: for each key, the value last written by set_env
    callWritten, \* history: written, as it was when req arrived
    envOut,    \* the last set_env or get_env request and its response
    lookPath,  \* history: the binaries on the search path when req arrived
    pc,        \* where the execution request is: idle, prepared, running, done
    req,       \* the request being served (in)
    cmd,       \* the exec.Cmd built for it, with its context's timeout
    ctxErr,    \* cmdCtx.Err(): nil, DeadlineExceeded, Canceled
    proc,      \* the child process
    desc,      \* a process the child started that holds the output pipes
    stdout,    \* the bytes.Buffer cmd.Stdout
    stderr,    \* the bytes.Buffer cmd.Stderr
    writes,    \* writes made during this call
    result,    \* what Execute returned
    probes,    \* which: the version probes run so far, in order
    reader     \* a get_env call in progress: its request, position and entries

vars == <<goos, environ, setCount, written, callWritten, envOut, lookPath,
          pc, req, cmd, ctxErr, proc, desc, stdout, stderr, writes, result,
          probes, reader>>

NoReq    == [tool |-> "none"]
NoCmd    == [dir |-> <<>>, hasEnv |-> FALSE, env |-> <<>>, base |-> <<>>,
             timeoutMs |-> 0, shell |-> <<>>, shellArg |-> ""]
\* st: none, running, exited (by itself, with code), killed (by the context);
\* late: it exited after the context was done; firedRunning: the context's
\* deadline fired while it ran; interrupted: Kill reached it after its exit
\* and before Wait reaped it; reaped: Process.Wait returned; envp, dir: the
\* environment and directory it got;
\* base: the caller's environment list its environment was built from
NoProc   == [st |-> "none", code |-> 0, late |-> FALSE, firedRunning |-> FALSE,
             killSent |-> FALSE, interrupted |-> FALSE, reaped |-> FALSE,
             envp |-> <<>>, dir |-> <<>>, base |-> <<>>, startErr |-> FALSE,
             cancelRunning |-> FALSE]
NoResult == [kind |-> "none"]
NoWrites == <<>>
NoEnvOut == [tool |-> "none"]
NoReader == [st |-> "idle"]

Init ==
    /\ goos \in {"linux", "windows"}
    /\ environ = <<EnvEntry(KPWD, <<"/">>), EnvEntry(KX, <<"0">>)>>
    /\ setCount = 0
    /\ written = NoWrites
    /\ callWritten = NoWrites
    /\ envOut = NoEnvOut
    /\ lookPath = {}
    /\ pc = "idle"
    /\ req = NoReq
    /\ cmd = NoCmd
    /\ ctxErr = "nil"
    /\ proc = NoProc
    /\ desc = "none"
    /\ stdout = <<>>
    /\ stderr = <<>>
    /\ writes = 0
    /\ result = NoResult
    /\ probes = <<>>
    /\ reader = NoReader

(***************************************************************************)
(* Execute, up to cmd.Run.                                                 *)
(***************************************************************************)
\* the orders in which `range` may visit the keys of the map m
RangeOrders(m) ==
    {o \in [1..Cardinality(DOMAIN m) -> DOMAIN m] :
        \A i, j \in 1..Cardinality(DOMAIN m) : i # j => o[i] # o[j]}

\* overrideEnv with the overrides put before the caller's entries
overrideEnvFirst(env, m, order) ==
    [i \in 1..Len(order) |-> EnvEntry(order[i], m[order[i]])] \o env

\* env := os.Environ(); for k, v := range overrides { env = append(env, k+"="+v) }
overrideEnv(env, m, order) ==
    env \o [i \in 1..Len(order) |-> EnvEntry(order[i], m[order[i]])]

\* a timeout that takes the default for negative values only
effectiveTimeoutNegOnly(timeout_ms) ==
    IF timeout_ms < 0 THEN defaultTimeoutMs ELSE timeout_ms

\* timeoutMs := in.TimeoutMs; if timeoutMs <= 0 { timeoutMs = defaultTimeoutMs }
effectiveTimeout(timeout_ms) ==
    IF timeout_ms <= 0 THEN defaultTimeoutMs ELSE timeout_ms

\* fullCmd := in.Cmd + " " + strings.Join(in.Args, " ")
fullCmdOf(in) == in.cmd \o SP \o Join(in.args, SP)

RECURSIVE scriptDeniedFrom(_, _)
\* the loop over the lines of the script, from line i on
scriptDeniedFrom(lines, i) ==
    IF i > Len(lines) THEN [blocked |-> FALSE, pattern |-> "", line |-> <<>>]
    ELSE LET line == TrimSpace(lines[i])
         IN  IF line = <<>> \/ HasPrefix(line, <<"#">>)
             THEN scriptDeniedFrom(lines, i + 1)
             ELSE IF isDenied(line).blocked
             THEN [blocked |-> TRUE, pattern |-> isDenied(line).pattern, line |-> line]
             ELSE scriptDeniedFrom(lines, i + 1)

RECURSIVE scriptDeniedAllFrom(_, _)
\* the loop without its skip of blank and comment lines
scriptDeniedAllFrom(lines, i) ==
    IF i > Len(lines) THEN [blocked |-> FALSE, pattern |-> "", line |-> <<>>]
    ELSE LET line == TrimSpace(lines[i])
         IN  IF isDenied(line).blocked
             THEN [blocked |-> TRUE, pattern |-> isDenied(line).pattern, line |-> line]
             ELSE scriptDeniedAllFrom(lines, i + 1)

scriptDeniedAll(script) == scriptDeniedAllFrom(SplitLines(script), 1)

scriptDenied(script) == scriptDeniedFrom(SplitLines(script), 1)

ErrResult(err, pattern, line) ==
    [kind |-> "error", err |-> err, pattern |-> pattern, line |-> line]

\* the cwd is given and is no directory
cwdInvalid(cwd) == cwd # <<>> /\ ~IsDir(Abs(cwd))

\* the exec.Cmd of a request that passed the checks
buildCmd(in, shell, order) ==
    [dir |-> IF in.cwd = <<>> THEN <<>> ELSE Abs(in.cwd),
     hasEnv |-> Cardinality(DOMAIN in.env_overrides) > 0,
     env |-> IF Cardinality(DOMAIN in.env_overrides) > 0
             THEN overrideEnv(environ, in.env_overrides, order) ELSE <<>>,
     base |-> environ,
     timeoutMs |-> effectiveTimeout(in.timeout_ms),
     shell |-> shell,
     shellArg |-> ""]

\* Execute returns an error before anything is started
Reject(in, res) ==
    /\ pc' = "done"
    /\ req' = in
    /\ result' = res
    /\ cmd' = NoCmd
    /\ ctxErr' = "nil"
    /\ proc' = NoProc
    /\ desc' = "none"
    /\ stdout' = <<>>
    /\ stderr' = <<>>
    /\ writes' = 0
    /\ callWritten' = written
    /\ UNCHANGED <<reader, probes, goos, environ, setCount, written, envOut>>

\* a Prepare that writes the overrides into the caller's environment
PrepareSetenv(in, c) ==
    /\ pc' = "prepared"
    /\ req' = in
    /\ result' = NoResult
    /\ cmd' = c
    /\ ctxErr' = "nil"
    /\ proc' = NoProc
    /\ desc' = "none"
    /\ stdout' = <<>>
    /\ stderr' = <<>>
    /\ writes' = 0
    /\ callWritten' = written
    /\ environ' = IF c.hasEnv THEN dedupEnv(c.env) ELSE environ
    /\ UNCHANGED <<reader, probes, goos, setCount, written, envOut>>

\* Execute reaches cmd.Run with the context armed
Prepare(in, c) ==
    /\ pc' = "prepared"
    /\ req' = in
    /\ result' = NoResult
    /\ cmd' = c
    /\ ctxErr' = "nil"
    /\ proc' = NoProc
    /\ desc' = "none"
    /\ stdout' = <<>>
    /\ stderr' = <<>>
    /\ writes' = 0
    /\ callWritten' = written
    /\ UNCHANGED <<reader, probes, goos, environ, setCount, written, envOut>>

\* run_command with the working-directory check ahead of the deny check
RunCommandCwdFirst(in, order) ==
    /\ pc = "idle"
    /\ lookPath' = {}
    /\ IF in.cmd = <<>>
       THEN Reject(in, ErrResult("cmd required", "", <<>>))
       ELSE IF cwdInvalid(in.cwd)
       THEN Reject(in, ErrResult("cwd", "", <<>>))
       ELSE IF isDenied(fullCmdOf(in)).blocked
       THEN Reject(in, ErrResult("denied", isDenied(fullCmdOf(in)).pattern, <<>>))
       ELSE Prepare(in, buildCmd(in, <<>>, order))

\* RunCommandTool.Execute up to cmd.Run
RunCommand(in, order) ==
    /\ pc = "idle"
    /\ lookPath' = {}
    /\ IF in.cmd = <<>>
       THEN Reject(in, ErrResult("cmd required", "", <<>>))
       ELSE IF isDenied(fullCmdOf(in)).blocked
       THEN Reject(in, ErrResult("denied", isDenied(fullCmdOf(in)).pattern, <<>>))
       ELSE IF cwdInvalid(in.cwd)
       THEN Reject(in, ErrResult("cwd", "", <<>>))
       ELSE Prepare(in, buildCmd(in, <<>>, order))

RunScript(in, installed, order) ==
    /\ pc = "idle"
    /\ lookPath' = installed
    /\ IF in.script = <<>>
       THEN Reject(in, ErrResult("script required", "", <<>>))
       ELSE IF scriptDenied(in.script).blocked
       THEN Reject(in, ErrResult("denied", scriptDenied(in.script).pattern,
                                 scriptDenied(in.script).line))
       ELSE IF cwdInvalid(in.cwd)
       THEN Reject(in, ErrResult("cwd", "", <<>>))
       ELSE Prepare(in, [buildCmd(in, resolveShell(in.shell, goos, installed).shell,
                                  order)
                            EXCEPT !.shellArg = resolveShell(in.shell, goos,
                                                             installed).shellArg])

(***************************************************************************)
(* cmd.Run: the child, what it starts, the context, and Wait.              *)
(***************************************************************************)
\* the environment list os/exec hands to the child: cmd.Env, or the caller's
\* (with PWD set to cmd.Dir on a POSIX host) when cmd.Env is nil; deduplicated
childEnviron(c, env, os) ==
    dedupEnv(IF c.hasEnv THEN c.env
             ELSE IF c.dir # <<>> /\ os # "windows"
             THEN Append(env, EnvEntry(KPWD, c.dir))
             ELSE env)

\* the sizes of one write
WriteSizes == {1, maxOutputBytes}

\* the error cmd.Run returns for a child that was started; ExitCode() of a
\* child ended by Process.Kill is -1 for a signal and 1 for TerminateProcess
runErr(p) ==
    IF p.st = "killed"
    THEN [kind |-> "exit", code |-> IF goos = "windows" THEN 1 ELSE -1]
    ELSE IF p.code # 0 THEN [kind |-> "exit", code |-> p.code]
    ELSE IF p.interrupted THEN [kind |-> "other", code |-> 0]
    ELSE [kind |-> "nil", code |-> 0]

\* the result record of a call that did not fail
okResult(code, timedOut, so, se, truncated, shell) ==
    [kind |-> "ok", exit_code |-> code, timed_out |-> timedOut,
     stdout |-> so.text, stderr |-> se.text, truncated |-> truncated,
     stdoutTrunc |-> so.truncated, stderrTrunc |-> se.truncated,
     shell_used |-> shell]

\* assemble looking at err before the context
assembleErrFirst(ctx, err, out, errb, shell) ==
    LET so == capOutput(out)
        se == capOutput(errb)
        tr == IF se.truncated THEN TRUE ELSE so.truncated
    IN  IF err.kind = "exit" THEN okResult(err.code, FALSE, so, se, tr, shell)
        ELSE IF ctx = "DeadlineExceeded" THEN okResult(-1, TRUE, so, se, tr, shell)
        ELSE IF err.kind = "other" THEN ErrResult("failed to run", "", <<>>)
        ELSE okResult(0, FALSE, so, se, tr, shell)

\* assemble returning on a timeout before it reads the buffers
assembleDropOnTimeout(ctx, err, out, errb, shell) ==
    LET so == capOutput(out)
        se == capOutput(errb)
        none == capOutput(<<>>)
        tr == IF se.truncated THEN TRUE ELSE so.truncated
    IN  IF ctx = "DeadlineExceeded" THEN okResult(-1, TRUE, none, none, FALSE, shell)
        ELSE IF err.kind = "exit" THEN okResult(err.code, FALSE, so, se, tr, shell)
        ELSE IF err.kind = "other" THEN ErrResult("failed to run", "", <<>>)
        ELSE okResult(0, FALSE, so, se, tr, shell)

\* assemble without the stderr flag
assembleStdoutFlag(ctx, err, out, errb, shell) ==
    LET so == capOutput(out)
        se == capOutput(errb)
        tr == so.truncated
    IN  IF ctx = "DeadlineExceeded" THEN okResult(-1, TRUE, so, se, tr, shell)
        ELSE IF err.kind = "exit" THEN okResult(err.code, FALSE, so, se, tr, shell)
        ELSE IF err.kind = "other" THEN ErrResult("failed to run", "", <<>>)
        ELSE okResult(0, FALSE, so, se, tr, shell)

\* Execute after cmd.Run: the result from cmdCtx.Err(), err and the buffers
assemble(ctx, err, out, errb, shell) ==
    LET so == capOutput(out)
        se == capOutput(errb)
        tr == IF se.truncated THEN TRUE ELSE so.truncated
    IN  IF ctx = "DeadlineExceeded" THEN okResult(-1, TRUE, so, se, tr, shell)
        ELSE IF err.kind = "exit" THEN okResult(err.code, FALSE, so, se, tr, shell)
        ELSE IF err.kind = "other" THEN ErrResult("failed to run", "", <<>>)
        ELSE okResult(0, FALSE, so, se, tr, shell)

\* cmd.Start: the binary is started, or Run fails at once (the binary is
\* missing or not executable, or the context is already done)
Start(startable) ==
    /\ pc = "prepared"
    /\ IF ctxErr # "nil" \/ ~startable
       THEN /\ pc' = "done"
            /\ result' = assemble(ctxErr, [kind |-> "other", code |-> 0],
                                  stdout, stderr, cmd.shell)
            /\ proc' = [proc EXCEPT !.startErr = ~startable]
       ELSE /\ pc' = "running"
            /\ proc' = [NoProc EXCEPT !.st = "running",
                                      !.envp = childEnviron(cmd, environ, goos),
                                      !.dir = cmd.dir,
                                      !.base = IF cmd.hasEnv THEN cmd.base ELSE environ]
            /\ UNCHANGED result
    /\ UNCHANGED <<reader, probes, goos, environ, setCount, written, callWritten, envOut, lookPath, req, cmd, ctxErr, desc, stdout, stderr, writes>>

\* the timer of context.WithTimeout (or the deadline of the caller's context)
DeadlineFire ==
    /\ pc \in {"prepared", "running"}
    /\ ctxErr = "nil"
    /\ ctxErr' = "DeadlineExceeded"
    /\ proc' = [proc EXCEPT !.firedRunning = (proc.st = "running")]
    /\ UNCHANGED <<reader, probes, goos, environ, setCount, written, callWritten, envOut, lookPath, pc, req, cmd, desc, stdout, stderr, writes, result>>

\* the caller cancels its context
ParentCancel ==
    /\ pc \in {"prepared", "running"}
    /\ ctxErr = "nil"
    /\ ctxErr' = "Canceled"
    /\ proc' = [proc EXCEPT !.cancelRunning = (proc.st = "running")]
    /\ UNCHANGED <<reader, probes, goos, environ, setCount, written, callWritten, envOut, lookPath, pc, req, cmd, desc, stdout, stderr, writes, result>>

\* os/exec's watcher goroutine: once the context is done it kills the child
Kill ==
    /\ pc = "running"
    /\ ctxErr # "nil"
    /\ proc.st \in {"running", "exited"}
    /\ ~proc.killSent
    /\ ~proc.reaped
    /\ proc' = IF proc.st = "running"
               THEN [proc EXCEPT !.st = "killed", !.killSent = TRUE]
               ELSE [proc EXCEPT !.interrupted = TRUE, !.killSent = TRUE]
    /\ UNCHANGED <<reader, probes, goos, environ, setCount, written, callWritten, envOut, lookPath, pc, req, cmd, ctxErr, desc, stdout, stderr, writes, result>>

\* a write to a stream ("stdout", "stderr") by src, copied into its buffer
WriteTo(stream, src, n) ==
    /\ writes < MaxWrites
    /\ writes' = writes + 1
    /\ IF stream = "stdout"
       THEN /\ stdout' = BufWrite(stdout, [src |-> src, late |-> ctxErr # "nil", n |-> n])
            /\ UNCHANGED stderr
       ELSE /\ stderr' = BufWrite(stderr, [src |-> src, late |-> ctxErr # "nil", n |-> n])
            /\ UNCHANGED stdout

ChildWrite(stream, n) ==
    /\ pc = "running"
    /\ proc.st = "running"
    /\ WriteTo(stream, "child", n)
    /\ UNCHANGED <<reader, probes, goos, environ, setCount, written, callWritten, envOut, lookPath, pc, req, cmd, ctxErr, proc, desc, result>>

\* the child starts a process that inherits its output pipes
ChildFork ==
    /\ pc = "running"
    /\ proc.st = "running"
    /\ desc = "none"
    /\ desc' = "alive"
    /\ UNCHANGED <<reader, probes, goos, environ, setCount, written, callWritten, envOut, lookPath, pc, req, cmd, ctxErr, proc, stdout, stderr, writes, result>>

DescWrite(stream, n) ==
    /\ pc = "running"
    /\ desc = "alive"
    /\ WriteTo(stream, "desc", n)
    /\ UNCHANGED <<reader, probes, goos, environ, setCount, written, callWritten, envOut, lookPath, pc, req, cmd, ctxErr, proc, desc, result>>

DescExit ==
    /\ pc = "running"
    /\ desc = "alive"
    /\ desc' = "gone"
    /\ UNCHANGED <<reader, probes, goos, environ, setCount, written, callWritten, envOut, lookPath, pc, req, cmd, ctxErr, proc, stdout, stderr, writes, result>>

\* the child exits by itself
ChildExit(code) ==
    /\ pc = "running"
    /\ proc.st = "running"
    /\ proc' = [proc EXCEPT !.st = "exited", !.code = code, !.late = (ctxErr # "nil")]
    /\ UNCHANGED <<reader, probes, goos, environ, setCount, written, callWritten, envOut, lookPath, pc, req, cmd, ctxErr, desc, stdout, stderr, writes, result>>

\* cmd.Wait: Process.Wait returns for the dead child
Reap ==
    /\ pc = "running"
    /\ proc.st \in {"exited", "killed"}
    /\ ~proc.reaped
    /\ proc' = [proc EXCEPT !.reaped = TRUE]
    /\ UNCHANGED <<reader, probes, goos, environ, setCount, written, callWritten, envOut, lookPath, pc, req, cmd, ctxErr, desc, stdout, stderr, writes, result>>

\* cmd.Wait can return: the child is reaped and both pipes are at end of file,
\* which they are once no process holds their write ends
WaitReturns == pc = "running" /\ proc.reaped /\ desc # "alive"

\* a return that runs the command again after a timeout or a nonzero exit
FinishRetry ==
    /\ WaitReturns
    /\ IF ctxErr = "DeadlineExceeded" \/ runErr(proc).kind = "exit"
       THEN pc' = "prepared" /\ ctxErr' = "nil" /\ UNCHANGED result
       ELSE /\ pc' = "done"
            /\ result' = assemble(ctxErr, runErr(proc), stdout, stderr, cmd.shell)
            /\ UNCHANGED ctxErr
    /\ UNCHANGED <<reader, probes, goos, environ, setCount, written, callWritten, envOut, lookPath, req, cmd, proc, desc, stdout, stderr, writes>>

\* cmd.Run returns and Execute assembles its result
Finish ==
    /\ WaitReturns
    /\ pc' = "done"
    /\ result' = assemble(ctxErr, runErr(proc), stdout, stderr, cmd.shell)
    /\ UNCHANGED <<reader, probes, goos, environ, setCount, written, callWritten, envOut, lookPath, req, cmd, ctxErr, proc, desc, stdout, stderr, writes>>

\* the caller has the result; the tool is ready for the next request
Return ==
    /\ pc = "done"
    /\ pc' = "idle"
    /\ req' = NoReq
    /\ cmd' = NoCmd
    /\ ctxErr' = "nil"
    /\ proc' = NoProc
    /\ desc' = "none"
    /\ stdout' = <<>>
    /\ stderr' = <<>>
    /\ writes' = 0
    /\ result' = NoResult
    /\ callWritten' = NoWrites
    /\ lookPath' = {}
    /\ probes' = <<>>
    /\ UNCHANGED <<reader, goos, environ, setCount, written, envOut>>

(***************************************************************************)
(* which: exec.LookPath, then detectVersion's loop over the version flags, *)
(* one probe of the resolved binary per flag.                              *)
(***************************************************************************)
\* the flags detectVersion tries, in order
VersionFlags == <<<<"-","-","v","e","r","s","i","o","n">>, <<"-","v","e","r","s","i","o","n">>, <<"v","e","r","s","i","o","n">>, <<"-","V">>>>

\* the timeout of one probe, in seconds
versionTimeoutSec == 3

\* the length a version line is cut to
versionCap == 200

\* the text of n copies of c
Rep(c, n) == [i \in 1..n |-> c]

\* what a probe can print on its combined stdout and stderr (bytes)
ProbeOutputs ==
    { <<>>,
      <<"\n"," "," ","\n">>,
      <<"\n"," "," ","g","o","1",".","2","2"," ","\n","x">>,
      <<" ">> \o Rep("b", versionCap + 1) \o <<"\n","x">>,
      Rep("a", versionCap - 1) \o RuneBytes("U+00E9") }

\* what cmd.CombinedOutput of a probe can return: the probe exits with code
\* 0, exits with another code, or is killed at its timeout; CombinedOutput
\* returns late when a process the probe started keeps the pipe open
ProbeOutcomes ==
    {[err |-> "nil", output |-> o, held |-> FALSE] : o \in ProbeOutputs}
    \cup {[err |-> "exit", output |-> <<"u","s","a","g","e",":"," ","x">>, held |-> FALSE]}
    \cup {[err |-> "killed", output |-> <<>>, held |-> h] : h \in BOOLEAN}

\* the lines of output that are not blank, trimmed
versionLines(output) ==
    LET lines == SplitLines(output)
    IN  SelectSeq([i \in 1..Len(lines) |-> TrimSpace(lines[i])],
                  LAMBDA line : line # <<>>)

\* a version line cut at the length of the cap plus one
versionLineCutLate(output) ==
    LET line == versionLines(output)[1]
    IN  IF Len(line) > versionCap + 1 THEN SubSeq(line, 1, versionCap + 1) ELSE line

\* the line detectVersion returns for output: the first line that is not
\* blank, trimmed, cut to versionCap bytes
versionLine(output) ==
    LET line == versionLines(output)[1]
    IN  IF Len(line) > versionCap THEN SubSeq(line, 1, versionCap) ELSE line

\* detectVersion returns from inside its loop on this probe
probeReturns(o) ==
    o.err = "nil" /\ Len(o.output) > 0 /\ versionLines(o.output) # <<>>

WhichInput(name) == [tool |-> "which", name |-> name]

\* the names asked for: none, binaries on the search path, one that is not
WhichNames == {<<>>, <<"g","o">>, <<"r","e","b","o","o","t">>, <<"n","o","p","e">>}

\* the binaries on the search path of the which runs
WhichInstalled == {<<"g","o">>, <<"r","e","b","o","o","t">>}

\* json.Marshal(WhichOutput{...})
WhichOutput(found, path, version) ==
    [kind |-> "ok", found |-> found, path |-> path,
     version |-> DecodeUTF8(version)]

\* a which that puts the probe's command line to the deny list first
WhichDenyChecked(in, installed) ==
    /\ pc = "idle"
    /\ lookPath' = installed
    /\ IF in.name = <<>>
       THEN Reject(in, ErrResult("name required", "", <<>>))
       ELSE IF ~LookPath(in.name, installed).found
       THEN Reject(in, WhichOutput(FALSE, <<>>, <<>>))
       ELSE IF isDenied(LookPath(in.name, installed).path \o SP \o VersionFlags[1]).blocked
       THEN Reject(in, ErrResult("denied", "", <<>>))
       ELSE /\ pc' = "probing"
            /\ req' = in
            /\ UNCHANGED <<reader, probes, goos, environ, setCount, written, callWritten, envOut, cmd, ctxErr, proc, desc, stdout, stderr, writes, result>>

\* WhichTool.Execute up to the call of detectVersion
Which(in, installed) ==
    /\ pc = "idle"
    /\ lookPath' = installed
    /\ IF in.name = <<>>
       THEN Reject(in, ErrResult("name required", "", <<>>))
       ELSE IF ~LookPath(in.name, installed).found
       THEN Reject(in, WhichOutput(FALSE, <<>>, <<>>))
       ELSE /\ pc' = "probing"
            /\ req' = in
            /\ UNCHANGED <<reader, probes, goos, environ, setCount, written, callWritten, envOut, cmd, ctxErr, proc, desc, stdout, stderr, writes, result>>

\* one iteration of detectVersion's loop: the binary is run with the next
\* flag; the loop returns a line, or goes on, or ends with no version
Probe(o) ==
    /\ pc = "probing"
    /\ Len(probes) < Len(VersionFlags)
    /\ probes' = Append(probes,
                    [path |-> LookPath(req.name, lookPath).path,
                     flag |-> VersionFlags[Len(probes) + 1],
                     timeoutSec |-> versionTimeoutSec,
                     err |-> o.err, output |-> o.output, held |-> o.held])
    /\ IF probeReturns(o)
       THEN /\ pc' = "done"
            /\ result' = WhichOutput(TRUE, LookPath(req.name, lookPath).path,
                                     versionLine(o.output))
       ELSE IF Len(probes) + 1 = Len(VersionFlags)
       THEN /\ pc' = "done"
            /\ result' = WhichOutput(TRUE, LookPath(req.name, lookPath).path, <<>>)
       ELSE UNCHANGED <<pc, result>>
    /\ UNCHANGED <<reader, goos, environ, setCount, written, callWritten, envOut, lookPath, req, cmd, ctxErr, proc, desc, stdout, stderr, writes>>

(***************************************************************************)
(* set_env: the write of the environment table (a concurrent request).     *)
(***************************************************************************)
SetEnvKeys == {KX, KY}
SetEnvValues == {<<"1">>}

\* history: key was last written with value
Wrote(w, key, value) ==
    [k \in DOMAIN w \cup {key} |-> IF k = key THEN value ELSE w[k]]

\* the response of set_env: an error, or SetEnvOutput
SetEnvError(err) == [kind |-> "error", err |-> err]
SetEnvOutput(k) ==
    [kind |-> "ok", success |-> TRUE,
     message |-> IF isSensitiveEnvKey(k) THEN "warning: sensitive key" ELSE ""]

\* SetEnvTool.Execute on the request {key, value}
SetEnv(key, value) ==
    LET k == EncodeUTF8(key)
        v == EncodeUTF8(value)
        ok == k # <<>> /\ SetenvOK(k) /\ NoNUL(k) /\ NoNUL(v)
    IN  /\ setCount < MaxSetEnv
        /\ setCount' = setCount + 1
        /\ environ' = IF ok THEN Setenv(environ, k, v) ELSE environ
        /\ written' = IF ok THEN Wrote(written, key, value) ELSE written
        /\ envOut' = [tool |-> "set_env", key |-> key, value |-> value,
                      before |-> environ,
                      out |-> IF k = <<>> THEN SetEnvError("key required")
                              ELSE IF ~ok THEN SetEnvError("invalid argument")
                              ELSE SetEnvOutput(k)]
        /\ UNCHANGED <<reader, probes, goos, callWritten, lookPath, pc, req, cmd, ctxErr, proc, desc,
                       stdout, stderr, writes, result>>

(***************************************************************************)
(* get_env: the read of the environment table.                             *)
(***************************************************************************)
\* GetEnvTool.Execute on the request in
GetEnv(in) ==
    /\ envOut' = [tool |-> "get_env", in |-> in, out |-> getEnvOut(in, environ)]
    /\ UNCHANGED <<reader, probes, goos, environ, setCount, written, callWritten, lookPath, pc, req, cmd,
                   ctxErr, proc, desc, stdout, stderr, writes, result>>

(***************************************************************************)
(* get_env step by step, for requests that run while set_env writes: each  *)
(* call of os.LookupEnv, os.Environ and os.Setenv is one step (package     *)
(* syscall serialises them with its environment lock).                     *)
(***************************************************************************)
\* GetEnvTool.Execute starts: the all-variables branch takes its copy of the
\* table with one call of os.Environ; the keys branch enters its loop
GetEnvBegin(in) ==
    /\ reader.st \in {"idle", "done"}
    /\ reader' =
           IF Len(in.keys) > 0
           THEN [st |-> "looking", in |-> in, i |-> 1, entries |-> <<>>,
                 count0 |-> setCount]
           ELSE [st |-> "looking", in |-> in, i |-> 1,
                 entries |-> entriesOfAll(environ, in.include_sensitive),
                 count0 |-> setCount]
    /\ UNCHANGED <<probes, goos, environ, setCount, written, callWritten, envOut, lookPath, pc, req, cmd, ctxErr, proc, desc, stdout, stderr, writes, result>>

\* one iteration of the loop over in.Keys
GetEnvLookup ==
    /\ reader.st = "looking"
    /\ reader.i <= Len(reader.in.keys)
    /\ LET key == EncodeUTF8(reader.in.keys[reader.i])
           got == LookupEnv(environ, key)
       IN  reader' = [reader EXCEPT
               !.i = @ + 1,
               !.entries = IF got.exists
                           THEN Append(@, envEntryOf(key, got.val,
                                                     reader.in.include_sensitive))
                           ELSE @]
    /\ UNCHANGED <<probes, goos, environ, setCount, written, callWritten, envOut, lookPath, pc, req, cmd, ctxErr, proc, desc, stdout, stderr, writes, result>>

\* GetEnvTool.Execute returns its GetEnvOutput
GetEnvReturn ==
    /\ reader.st = "looking"
    /\ reader.i > Len(reader.in.keys)
    /\ reader' = [st |-> "done", in |-> reader.in, count0 |-> reader.count0,
                  out |-> [variables |-> reader.entries,
                           count |-> Len(reader.entries)]]
    /\ UNCHANGED <<probes, goos, environ, setCount, written, callWritten, envOut, lookPath, pc, req, cmd, ctxErr, proc, desc, stdout, stderr, writes, result>>

\* a request arrives, drawn from the sets cs (run_command) and ss (run_script)
\* with the search path holding one of the sets insts
Request(cs, ss, insts) ==
    \/ \E in \in cs : \E o \in RangeOrders(in.env_overrides) : RunCommand(in, o)
    \/ \E in \in ss : \E inst \in insts :
           \E o \in RangeOrders(in.env_overrides) : RunScript(in, inst, o)

\* the steps of one execution that write no output and start no process
RunSteps ==
    \/ \E startable \in BOOLEAN : Start(startable)
    \/ DeadlineFire
    \/ Kill
    \/ \E code \in {0, 3} : ChildExit(code)
    \/ Reap
    \/ Finish
    \/ Return

\* Execution: a request, its child with its output and descendants, the
\* context, and the result.
Next ==
    \/ Request(CoreCommandInputs, CoreScriptInputs, {CoreInstalled})
    \/ RunSteps
    \/ ParentCancel
    \/ \E s \in {"stdout", "stderr"} : \E n \in WriteSizes : ChildWrite(s, n)
    \/ ChildFork
    \/ \E s \in {"stdout", "stderr"} : \E n \in WriteSizes : DescWrite(s, n)
    \/ DescExit

Spec == Init /\ [][Next]_vars

\* Policy: every request of the policy sets, and the execution of those admitted.
NextPolicy ==
    \/ Request(PolicyCommandInputs, PolicyScriptInputs, InstalledSets)
    \/ RunSteps

SpecPolicy == Init /\ [][NextPolicy]_vars

\* Environment: requests with overrides and working directories, served while
\* set_env requests change the environment table.
NextEnv ==
    \/ Request(EnvCommandInputs, EnvScriptInputs, {CoreInstalled})
    \/ RunSteps
    \/ \E k \in SetEnvKeys : \E v \in SetEnvValues : SetEnv(k, v)

SpecEnv == Init /\ [][NextEnv]_vars

\* Shell resolution: scripts with every shell name on every search path, and
\* their execution.
NextShell ==
    \/ \E in \in ShellScriptInputs : \E inst \in ShellInstalledSets :
           \E o \in RangeOrders(in.env_overrides) : RunScript(in, inst, o)
    \/ RunSteps

SpecShell == Init /\ [][NextShell]_vars

\* the environment table the store requests start from: the host's, with a
\* sensitive variable in it
InitStore ==
    /\ goos \in {"linux", "windows"}
    /\ environ = <<EnvEntry(KPWD, <<"/">>), EnvEntry(KX, <<"0">>),
                   EnvEntry(<<"T","O","K","E","N">>, <<"a","b","c","d","e","f">>)>>
    /\ setCount = 0
    /\ written = NoWrites
    /\ callWritten = NoWrites
    /\ envOut = NoEnvOut
    /\ lookPath = {}
    /\ pc = "idle"
    /\ req = NoReq
    /\ cmd = NoCmd
    /\ ctxErr = "nil"
    /\ proc = NoProc
    /\ desc = "none"
    /\ stdout = <<>>
    /\ stderr = <<>>
    /\ writes = 0
    /\ result = NoResult
    /\ probes = <<>>
    /\ reader = NoReader

\* Store: set_env and get_env requests on the environment table.
NextStore ==
    \/ \E k \in StoreKeys : \E v \in StoreValues : SetEnv(k, v)
    \/ \E in \in GetEnvInputs : GetEnv(in)

SpecStore == InitStore /\ [][NextStore]_vars

\* Which: which requests and the probes of the binaries found.
NextWhich ==
    \/ \E name \in WhichNames : Which(WhichInput(name), WhichInstalled)
    \/ \E o \in ProbeOutcomes : Probe(o)
    \/ Return

SpecWhich == Init /\ [][NextWhich]_vars

\* Race: get_env requests served step by step while set_env requests write.
NextRace ==
    \/ \E k \in {KX, <<"T","O","K","E","N">>} :
           \E v \in {<<"a","b","c","d","e">>, <<"a", "U+00E9", "b", "c", "d">>} : SetEnv(k, v)
    \/ \E ks \in {<<>>, <<KX>>, <<KX, KX>>, <<<<"T","O","K","E","N">>, KX, <<"T","O","K","E","N">>>>} :
           \E b \in BOOLEAN : GetEnvBegin(GetEnvInput(TRUE, ks, b))
    \/ GetEnvLookup
    \/ GetEnvReturn

SpecRace == InitStore /\ [][NextRace]_vars

(***************************************************************************)
(* Properties.                                                             *)
(***************************************************************************)
\* the line of a run_command request: cmd followed by the args, joined with
\* single spaces
CommandLine(in) ==
    IF Len(in.args) = 0 THEN in.cmd ELSE in.cmd \o SP \o Join(in.args, SP)

MatchesSomeRule(line) ==
    \E i \in 1..Len(defaultDenyPatterns) : MatchString(defaultDenyPatterns[i].re, line)

PolicyViolation == pc = "done" /\ result.kind = "error" /\ result.err = "denied"

\* C1: a run_command request with a non-empty cmd whose line (cmd and args
\* joined with single spaces) matches a deny rule fails with a policy
\* violation and no process is started, whatever its cwd, env_overrides and
\* timeout_ms.
C1_DeniedCommandNotSpawned ==
    (req.tool = "run_command" /\ req.cmd # <<>> /\ MatchesSomeRule(CommandLine(req)))
        => (PolicyViolation /\ proc.st = "none")

\* rm -rf / is refused though its cwd is missing, with overrides and a timeout
C1_Witness ==
    /\ req.tool = "run_command"
    /\ req.cmd = <<"r","m">> /\ req.args = <<<<"-","r","f">>, <<"/">>>>
    /\ req.cwd = <<"/","n">> /\ DOMAIN req.env_overrides # {} /\ req.timeout_ms = 100
    /\ PolicyViolation /\ proc.st = "none"

\* a line is checked when, trimmed, it is not blank and does not start with #
Checked(line) == TrimSpace(line) # <<>> /\ TrimSpace(line)[1] # "#"

\* the numbers of the checked lines of a script that match a rule
Offending(script) ==
    {i \in 1..Len(SplitLines(script)) :
        /\ Checked(SplitLines(script)[i])
        /\ MatchesSomeRule(TrimSpace(SplitLines(script)[i]))}

FirstOf(S) == CHOOSE i \in S : \A j \in S : i <= j

\* C2: a run_script request fails with a policy violation exactly when one
\* of its checked lines (trimmed, not blank, not starting with #) matches a
\* rule; the failure names the first such line and a rule that line matches,
\* and no interpreter is started.
C2_ScriptLinesChecked ==
    (req.tool = "run_script" /\ req.script # <<>>)
        => IF Offending(req.script) # {}
           THEN /\ PolicyViolation
                /\ proc.st = "none"
                /\ result.line =
                       TrimSpace(SplitLines(req.script)[FirstOf(Offending(req.script))])
                /\ \E i \in 1..Len(defaultDenyPatterns) :
                       /\ defaultDenyPatterns[i].src = result.pattern
                       /\ MatchString(defaultDenyPatterns[i].re, result.line)
           ELSE ~PolicyViolation

\* the script whose second line is reboot and third mkfs is refused for reboot
C2_Witness ==
    /\ req.tool = "run_script"
    /\ req.script = <<"e","c","h","o"," ","a","\n"," "," ","r","e","b","o","o","t"," ","\n","m","k","f","s"," ","x">>
    /\ PolicyViolation
    /\ result.line = <<"r","e","b","o","o","t">>
    /\ result.pattern = "\\breboot\\b"

Returned == pc = "done" /\ result.kind = "ok"

\* C3: when the deadline elapses while the child runs, the child is ended and
\* the call returns a result, not an error, with timed_out = true and
\* exit_code = -1.
C3_DeadlineWhileRunning ==
    (pc = "done" /\ proc.firedRunning)
        => /\ proc.st \in {"killed", "exited"}
           /\ result.kind = "ok"
           /\ result.timed_out
           /\ result.exit_code = -1

\* a call whose child was killed by the deadline has returned
C3_Witness ==
    /\ pc = "done" /\ proc.firedRunning /\ proc.st = "killed"
    /\ Returned /\ result.timed_out

\* C4: when the child exits before the deadline elapses (and the caller does
\* not cancel), the result has timed_out = false and the child's exit status,
\* zero or not, and is a result, not a failure.
C4_ExitBeforeDeadline ==
    (pc = "done" /\ proc.st = "exited" /\ ~proc.late /\ ctxErr # "Canceled")
        => /\ result.kind = "ok"
           /\ ~result.timed_out
           /\ result.exit_code = proc.code

\* C5: once the deadline has fired and the child it found running is dead,
\* cmd.Wait can return: the call waits for nothing the child started.
C5_TimedOutCallReturns ==
    (pc = "running" /\ ctxErr = "DeadlineExceeded" /\ proc.firedRunning /\ proc.reaped)
        => WaitReturns

\* no byte of text was written by the child after the context was done
NoLateChildBytes(text) ==
    \A i \in 1..Len(text) : ~(text[i].src = "child" /\ text[i].late)

\* C6: a result with timed_out = true has exit_code = -1 and its stdout and
\* stderr hold no output the child produced after the deadline.
C6_TimedOutResult ==
    (Returned /\ result.timed_out)
        => /\ result.exit_code = -1
           /\ NoLateChildBytes(result.stdout)
           /\ NoLateChildBytes(result.stderr)

\* text is the first bytes of data, all of them up to the budget
UpToCap(text, data) ==
    /\ BytesLen(text) = IF BytesLen(data) > maxOutputBytes
                        THEN maxOutputBytes ELSE BytesLen(data)
    /\ text = Take(data, BytesLen(text))

\* C7: a call that times out returns a result, not an error, and the result
\* holds every byte written to stdout and to stderr before the child was
\* ended, up to the cap of each stream.
C7_TimeoutKeepsOutput ==
    (pc = "done" /\ ctxErr = "DeadlineExceeded")
        => /\ result.kind = "ok"
           /\ result.timed_out
           /\ UpToCap(result.stdout, stdout)
           /\ UpToCap(result.stderr, stderr)

\* a killed child had written to both streams, and the result holds it
C7_Witness ==
    /\ Returned /\ result.timed_out /\ proc.st = "killed"
    /\ BytesLen(stdout) > 0 /\ BytesLen(stderr) > 0
    /\ result.stdout = stdout /\ result.stderr = stderr

\* the cap rule for one stream: data captured, text and flag returned
CapRule(text, flag, data) ==
    IF BytesLen(data) > maxOutputBytes
    THEN BytesLen(text) = maxOutputBytes /\ text = Take(data, maxOutputBytes) /\ flag
    ELSE text = data /\ ~flag

\* C8: for each stream, a capture longer than the budget of 1 MiB is returned
\* as its first 1,048,576 bytes and flagged; a capture of at most the budget
\* (the budget exactly included) is returned whole and not flagged.
C8_CapPerStream ==
    Returned
        => /\ CapRule(result.stdout, result.stdoutTrunc, stdout)
           /\ CapRule(result.stderr, result.stderrTrunc, stderr)

\* one byte over the budget on stdout: cut to the budget and flagged
C8_Witness ==
    /\ Returned
    /\ BytesLen(stdout) = maxOutputBytes + 1
    /\ BytesLen(result.stdout) = maxOutputBytes
    /\ result.stdoutTrunc

\* C9: truncated is true exactly when stdout or stderr exceeded the budget.
C9_TruncatedIsOr ==
    Returned
        => (result.truncated <=>
               (BytesLen(stdout) > maxOutputBytes \/ BytesLen(stderr) > maxOutputBytes))

\* only stderr exceeded the budget, and truncated is true
C9_Witness ==
    /\ Returned
    /\ BytesLen(stderr) > maxOutputBytes
    /\ BytesLen(stdout) <= maxOutputBytes
    /\ result.truncated

\* the names a child is asked for
ObservedKeys == {KX, KY, KPWD, <<"X","=","Y">>, <<>>}

Present(v) == [exists |-> TRUE, val |-> v]

\* C10 as stated: without overrides the child sees the caller's environment;
\* with overrides it sees each override key with the override value and every
\* other key as the caller has it.
C10_ChildEnvironment ==
    proc.st # "none"
        => \A k \in ObservedKeys :
              LookupEnv(proc.envp, k) =
                  IF k \in DOMAIN req.env_overrides
                  THEN Present(req.env_overrides[k])
                  ELSE LookupEnv(proc.base, k)

\* a name an environment can hold: not empty, no '='
ValidName(k) == k # <<>> /\ IndexChar(k, "=") = 0

\* C10 for valid names: the same holds for requests all of whose override
\* keys are valid names, except that a request with a cwd and no overrides
\* gets, on a host that is not Windows, PWD set to the resolved cwd.
C10_ChildEnvironmentValidKeys ==
    (proc.st # "none" /\ \A k \in DOMAIN req.env_overrides : ValidName(k))
        => \A k \in ObservedKeys :
              LookupEnv(proc.envp, k) =
                  IF k \in DOMAIN req.env_overrides
                  THEN Present(req.env_overrides[k])
                  ELSE IF /\ k = KPWD
                          /\ DOMAIN req.env_overrides = {}
                          /\ req.cwd # <<>>
                          /\ goos # "windows"
                  THEN Present(Abs(req.cwd))
                  ELSE LookupEnv(proc.base, k)

\* the override of X wins over the caller's X, and Y is as set_env left it
C10_Witness ==
    /\ proc.st # "none"
    /\ KX \in DOMAIN req.env_overrides
    /\ ValidName(KX)
    /\ LookupEnv(proc.base, KX) = Present(<<"0">>)
    /\ LookupEnv(proc.envp, KX) = Present(<<"2">>)
    /\ KY \notin DOMAIN req.env_overrides
    /\ LookupEnv(proc.envp, KY) = Present(<<"1">>)

(***************************************************************************)
(* Properties of the environment store.                                    *)
(***************************************************************************)
\* a get_env request has been answered
GotEnv == envOut.tool = "get_env"

\* the entries of the response
Variables == envOut.out.variables

\* the sensitive keys that set_env wrote a value of more than 4 characters to
LongSecrets ==
    {k \in DOMAIN written : isSensitiveEnvKey(EncodeUTF8(k)) /\ Len(written[k]) > 4}

\* every byte of the value after its first two and before its last two is '*'
MiddleIsStars(value) ==
    LET b == EncodeUTF8(value)
    IN  \A i \in 3..(Len(b) - 2) : b[i] = "*"

\* C11 as stated: a value of more than 4 characters written to a sensitive
\* key is never read back with include_sensitive=false as the value written.
C11_MaskedNeverEqual ==
    (GotEnv /\ ~envOut.in.include_sensitive)
        => \A i \in 1..Len(Variables) :
               Variables[i].key \in LongSecrets
                   => Variables[i].value # written[Variables[i].key]

\* C11: a value of more than 4 characters written to a sensitive key is read
\* back with include_sensitive=false as the value written exactly when every
\* byte between its first two and its last two is already '*'.
C11_MaskedEqualOnlyStars ==
    (GotEnv /\ ~envOut.in.include_sensitive)
        => \A i \in 1..Len(Variables) :
               Variables[i].key \in LongSecrets
                   => (Variables[i].value = written[Variables[i].key]
                          <=> MiddleIsStars(written[Variables[i].key]))

\* abcde was written to API_KEY and is read back masked
C11_Witness ==
    /\ GotEnv /\ ~envOut.in.include_sensitive
    /\ KApiKey \in LongSecrets
    /\ written[KApiKey] = <<"a","b","c","d","e">>
    /\ \E i \in 1..Len(Variables) :
           Variables[i].key = KApiKey /\ Variables[i].value = <<"a","b","*","d","e">>

\* the masked rendering of a value, in characters
MaskedText(v) ==
    IF Len(v) <= 4 THEN <<"*","*","*","*">>
    ELSE SubSeq(v, 1, 2) \o [i \in 1..(Len(v) - 4) |-> "*"]
             \o SubSeq(v, Len(v) - 1, Len(v))

\* C12: a redacted entry of a key written by set_env holds the masked
\* rendering of the value written: "****" for a value of at most 4
\* characters, else its first two characters, length - 4 times '*', and its
\* last two characters.
C12_MaskedRendering ==
    GotEnv
        => \A i \in 1..Len(Variables) :
               (Variables[i].redacted /\ Variables[i].key \in DOMAIN written)
                   => Variables[i].value = MaskedText(written[Variables[i].key])

\* the value the table holds for the key of an entry, as text
StoredText(key) == DecodeUTF8(LookupEnv(environ, EncodeUTF8(key)).val)

\* the masked value of the key of an entry, as text
MaskedStoredText(key) ==
    DecodeUTF8(redactValue(LookupEnv(environ, EncodeUTF8(key)).val))

\* C13: in both branches of get_env, an entry is redacted and holds the
\* masked value exactly when its key is sensitive and include_sensitive is
\* false; otherwise it holds the stored value and is not redacted.
C13_RedactedIffSensitive ==
    GotEnv
        => \A i \in 1..Len(Variables) :
               IF isSensitiveEnvKey(EncodeUTF8(Variables[i].key))
                      /\ ~envOut.in.include_sensitive
               THEN /\ Variables[i].redacted
                    /\ Variables[i].value = MaskedStoredText(Variables[i].key)
               ELSE /\ ~Variables[i].redacted
                    /\ Variables[i].value = StoredText(Variables[i].key)

\* all variables are read with include_sensitive=true, a sensitive one among
\* them, and it comes back as stored
C13_Witness ==
    /\ GotEnv /\ envOut.in.include_sensitive /\ Len(envOut.in.keys) = 0
    /\ \E i \in 1..Len(Variables) :
           /\ Variables[i].key = KApiKey
           /\ ~Variables[i].redacted
           /\ Variables[i].value = <<"a","b","c","d","e">>
    /\ \E i \in 1..Len(Variables) : Variables[i].key = KX

\* the variables currently set: the keys of the lines of the table
SetKeys == {EntryKey(environ[i]) : i \in 1..Len(environ)}

\* the keys of the entries of the response
ReturnedKeys == {EncodeUTF8(Variables[i].key) : i \in 1..Len(Variables)}

\* the keys a request lists
ListedKeys(in) == {EncodeUTF8(in.keys[i]) : i \in 1..Len(in.keys)}

\* C14 as stated: a keys list in the request, of whatever length, is answered
\* with the listed keys that are set and no other; only a request without
\* keys is answered with every variable; count is the number of entries.
C14_KeysSelectEntries ==
    GotEnv
        => /\ envOut.out.count = Len(Variables)
           /\ ReturnedKeys =
                  IF envOut.in.hasKeys
                  THEN ListedKeys(envOut.in) \cap SetKeys
                  ELSE SetKeys

\* C14: a non-empty keys list is answered with the listed keys that are set
\* and no other; a request whose keys are omitted or empty is answered with
\* every variable; count is the number of entries.
C14_NonEmptyKeysSelectEntries ==
    GotEnv
        => /\ envOut.out.count = Len(Variables)
           /\ ReturnedKeys =
                  IF Len(envOut.in.keys) > 0
                  THEN ListedKeys(envOut.in) \cap SetKeys
                  ELSE SetKeys

\* three keys are listed, one of them not set: two entries
C14_Witness ==
    /\ GotEnv
    /\ envOut.in.keys = <<KApiKey, KUnset, KX>>
    /\ EncodeUTF8(KApiKey) \in SetKeys
    /\ ReturnedKeys = {EncodeUTF8(KApiKey), KX}
    /\ envOut.out.count = 2

\* two texts are the same but for the case of their letters
SameIgnoringCase(a, b) ==
    /\ Len(a) = Len(b)
    /\ \A i \in 1..Len(a) : ToUpper(<<a[i]>>) = ToUpper(<<b[i]>>)

\* the classification as the rule states it: the name is, but for case, one
\* of the exact names, or has, but for case, one of the substrings in it
NamedSensitive(key) ==
    \/ \E name \in sensitiveEnvKeys : SameIgnoringCase(key, name)
    \/ \E p \in 1..Len(sensitivePatterns) :
           \E i \in 1..(Len(key) - Len(sensitivePatterns[p]) + 1) :
               SameIgnoringCase(SubSeq(key, i, i + Len(sensitivePatterns[p]) - 1),
                                sensitivePatterns[p])

\* C15: set_env attaches its advisory message, and get_env without
\* include_sensitive redacts, exactly for the keys whose upper-cased name is an
\* exact name or contains one of the substrings, whatever the case of the key
\* and whatever the value.
C15_SensitiveClassification ==
    /\ (envOut.tool = "set_env" /\ envOut.out.kind = "ok")
           => (envOut.out.message # "" <=> NamedSensitive(envOut.key))
    /\ (GotEnv /\ ~envOut.in.include_sensitive)
           => \A i \in 1..Len(Variables) :
                  Variables[i].redacted <=> NamedSensitive(Variables[i].key)

\* oAuth, sensitive by the substring AUTH in mixed case, is read back redacted
C15_Witness ==
    /\ GotEnv /\ ~envOut.in.include_sensitive
    /\ envOut.in.keys = <<KOAuth>>
    /\ Len(Variables) = 1
    /\ Variables[1].key = KOAuth
    /\ Variables[1].redacted

\* a set_env request has been answered
DidSetEnv == envOut.tool = "set_env"

\* the request succeeded, the table maps its key to its value, and the
\* advisory message is there exactly for a sensitive key
SetEnvTookEffect ==
    /\ envOut.out.kind = "ok"
    /\ envOut.out.success
    /\ LookupEnv(environ, EncodeUTF8(envOut.key))
           = [exists |-> TRUE, val |-> EncodeUTF8(envOut.value)]
    /\ envOut.out.message # "" <=> isSensitiveEnvKey(EncodeUTF8(envOut.key))

\* the request failed and the table is as it was
SetEnvFailedClean == envOut.out.kind = "error" /\ environ = envOut.before

\* C16 as stated: set_env takes effect for every non-empty key and every
\* value; with an empty key it fails and leaves the table unchanged.
C16_SetEnvSucceeds ==
    DidSetEnv
        => IF envOut.key # <<>> THEN SetEnvTookEffect ELSE SetEnvFailedClean

\* a key or value the operating system takes: no '=' and no U+0000 in the key,
\* no U+0000 in the value
Storable(key, value) ==
    /\ \A i \in 1..Len(key) : key[i] \notin {"=", "U+0000"}
    /\ \A i \in 1..Len(value) : value[i] # "U+0000"

\* C16: set_env takes effect for every non-empty key without '=' and U+0000
\* and every value without U+0000; every other request fails and leaves the
\* table unchanged.
C16_SetEnvSucceedsIfStorable ==
    DidSetEnv
        => IF envOut.key # <<>> /\ Storable(envOut.key, envOut.value)
           THEN SetEnvTookEffect
           ELSE SetEnvFailedClean

\* X, which the table held as 0, was written and the table maps it to the
\* value written
C16_Witness ==
    /\ DidSetEnv
    /\ envOut.key = KX /\ envOut.value = <<"a","b","c","d","e">>
    /\ LookupEnv(envOut.before, KX).val = <<"0">>
    /\ SetEnvTookEffect

\* C17: once set_env has written V to K, get_env with keys=[K] and
\* include_sensitive=true returns one entry: K, V exactly, not redacted.
C17_RoundTrip ==
    (/\ GotEnv /\ envOut.in.include_sensitive
     /\ Len(envOut.in.keys) = 1
     /\ envOut.in.keys[1] \in DOMAIN written)
        => Variables = <<[key |-> envOut.in.keys[1],
                          value |-> written[envOut.in.keys[1]],
                          redacted |-> FALSE]>>

\* a value with a two-byte character, written to the sensitive API_KEY, is
\* read back as written
C17_Witness ==
    /\ GotEnv /\ envOut.in.include_sensitive
    /\ envOut.in.keys = <<KApiKey>>
    /\ KApiKey \in DOMAIN written
    /\ written[KApiKey] = <<"a", "U+00E9", "b", "c", "d">>
    /\ Len(Variables) = 1
    /\ Variables[1].value = <<"a", "U+00E9", "b", "c", "d">>

(***************************************************************************)
(* Properties of the environment of the child, after set_env.              *)
(***************************************************************************)
\* the values of key that set_env wrote before req arrived and has not
\* replaced since, or has written since
WrittenValues(key) ==
    {EncodeUTF8(callWritten[key])}
        \cup (IF key \in DOMAIN written THEN {EncodeUTF8(written[key])} ELSE {})

\* C18: a child of a request that arrived after set_env wrote V to K sees
\* K = V (or a value set_env wrote to K later), unless the request's
\* env_overrides hold K, and then it sees the override value.
C18_ChildSeesWrittenValue ==
    proc.st # "none"
        => \A k \in DOMAIN callWritten :
               IF k \in DOMAIN req.env_overrides
               THEN LookupEnv(proc.envp, k) = Present(req.env_overrides[k])
               ELSE /\ LookupEnv(proc.envp, k).exists
                    /\ LookupEnv(proc.envp, k).val \in WrittenValues(k)

(***************************************************************************)
(* Properties of the shell resolution.                                     *)
(***************************************************************************)
\* a script was admitted and a shell resolved for it
Resolved == req.tool = "run_script" /\ cmd # NoCmd

\* the interpreter bound to the script
Binding == [shell |-> cmd.shell, shellArg |-> cmd.shellArg]

\* the binding to the interpreter name as LookPath finds it
Found(name, flag) == [shell |-> <<"/","u","s","r","/","b","i","n","/">> \o name, shellArg |-> flag]

KnownShells == {<<"b","a","s","h">>, <<"z","s","h">>, <<"s","h">>, <<"f","i","s","h">>, <<"p","w","s","h">>, <<"p","o","w","e","r","s","h","e","l","l">>}
PowerShells == {<<"p","w","s","h">>, <<"p","o","w","e","r","s","h","e","l","l">>}

\* the known name the request names, whatever its case
Named(name) == name \in KnownShells /\ SameIgnoringCase(req.shell, name)

FlagOf(name) == IF name \in PowerShells THEN "-Command" ELSE "-c"

\* run_script reports the path of the binding
ReportsBinding == Returned => result.shell_used = cmd.shell

\* C19 as stated: a known name (in whatever case) that is on the search path
\* is bound to its own path with its conventional flag, and run_script
\* reports that path as shell_used.
C19_RequestedShell ==
    Resolved
        => \A name \in KnownShells :
               (Named(name) /\ name \in lookPath)
                   => Binding = Found(name, FlagOf(name)) /\ ReportsBinding

\* C19: bash, zsh, sh and fish, when on the search path, are bound to their
\* own path with -c; for pwsh and powershell alike the binding is pwsh if it
\* is on the search path, else powershell if that is, with -Command;
\* run_script reports the path bound as shell_used.
C19_RequestedShellPwshFirst ==
    Resolved
        => \A name \in KnownShells :
               Named(name)
                   => IF name \in PowerShells
                      THEN (lookPath \cap PowerShells # {})
                               => /\ Binding =
                                       IF <<"p","w","s","h">> \in lookPath
                                       THEN Found(<<"p","w","s","h">>, "-Command")
                                       ELSE Found(<<"p","o","w","e","r","s","h","e","l","l">>, "-Command")
                                  /\ ReportsBinding
                      ELSE (name \in lookPath)
                               => Binding = Found(name, "-c") /\ ReportsBinding

\* ZSH was requested with zsh on the search path, and the script ran under it
C19_Witness ==
    /\ Resolved /\ Returned
    /\ req.shell = <<"Z","S","H">>
    /\ <<"z","s","h">> \in lookPath
    /\ result.shell_used = <<"/","u","s","r","/","b","i","n","/","z","s","h">>
    /\ cmd.shellArg = "-c"

\* the first interpreter of the platform's order that is on the search path
PlatformDefault ==
    IF goos = "windows"
    THEN IF <<"p","w","s","h">> \in lookPath THEN Found(<<"p","w","s","h">>, "-Command")
         ELSE IF <<"p","o","w","e","r","s","h","e","l","l">> \in lookPath THEN Found(<<"p","o","w","e","r","s","h","e","l","l">>, "-Command")
         ELSE [shell |-> <<"c","m","d">>, shellArg |-> "/C"]
    ELSE IF <<"b","a","s","h">> \in lookPath THEN Found(<<"b","a","s","h">>, "-c")
         ELSE IF <<"z","s","h">> \in lookPath THEN Found(<<"z","s","h">>, "-c")
         ELSE IF <<"s","h">> \in lookPath THEN Found(<<"s","h">>, "-c")
         ELSE [shell |-> <<"/","b","i","n","/","s","h">>, shellArg |-> "-c"]

\* C20 as stated: a request whose shell name is empty, unknown, or a known
\* name that is not on the search path is bound to the platform's default.
C20_Fallback ==
    (Resolved /\ ~\E name \in KnownShells : Named(name) /\ name \in lookPath)
        => Binding = PlatformDefault

\* C20: a request whose shell name is empty, unknown, one of bash, zsh, sh,
\* fish that is not on the search path, or a PowerShell name with neither
\* pwsh nor powershell on the search path, is bound to the platform's
\* default; the binding depends on the platform and the search path alone.
C20_FallbackUnlessPowerShell ==
    (Resolved /\ ~\E name \in KnownShells :
                     Named(name) /\ IF name \in PowerShells
                                    THEN lookPath \cap PowerShells # {}
                                    ELSE name \in lookPath)
        => Binding = PlatformDefault

\* bash was requested on a POSIX host that has zsh and fish: zsh is bound
C20_Witness ==
    /\ Resolved
    /\ goos = "linux"
    /\ req.shell = <<"b","a","s","h">>
    /\ lookPath = {<<"z","s","h">>, <<"f","i","s","h">>}
    /\ Binding = Found(<<"z","s","h">>, "-c")

(***************************************************************************)
(* C21..C30                                                                *)
(***************************************************************************)
\* the call is over and the operating system could not start the binary
SpawnFailed == pc = "done" /\ proc.startErr

\* the call is over and its child ran and exited by itself with a nonzero code
ExitedNonzero == pc = "done" /\ proc.st = "exited" /\ proc.code # 0

\* C21: a call whose binary the operating system cannot start fails; it is
\* never reported as a result with an exit code or as a timeout.
C21_SpawnFailureIsError ==
    SpawnFailed => result.kind = "error"

\* C21, second half: a child that starts and exits with a nonzero code never
\* makes the call fail.
C21_NonzeroExitIsResult ==
    ExitedNonzero => result.kind = "ok"

\* a child exited with code 3 and the call returned a result
C21_Witness ==
    ExitedNonzero /\ ctxErr = "nil" /\ result.kind = "ok" /\ result.exit_code = 3

\* the request passed every check and its command was built
Built == pc \in {"prepared", "running", "done"} /\ cmd # NoCmd

WhichCall == req.tool = "which" /\ pc \in {"probing", "done"}

\* which has answered for a binary on the search path
WhichFound == WhichCall /\ pc = "done" /\ req.name \in lookPath

\* the probe p exited with code 0 and printed a line that is not blank
Yields(p) == p.err = "nil" /\ versionLines(p.output) # <<>>

\* the flags were tried in order, and no probe followed one that yielded output
ProbedInOrder ==
    /\ Len(probes) <= Len(VersionFlags)
    /\ \A i \in 1..Len(probes) :
           /\ probes[i].flag = VersionFlags[i]
           /\ probes[i].timeoutSec = 3
           /\ probes[i].path = LookPath(req.name, lookPath).path
    /\ \A i \in 1..(Len(probes) - 1) : ~Yields(probes[i])

\* the first characters of text, at most n of them
FirstChars(text, n) == IF Len(text) > n THEN SubSeq(text, 1, n) ELSE text

\* which answers found = false with an empty path and has run no probe
NotFoundAnswer ==
    (WhichCall /\ pc = "done" /\ req.name # <<>> /\ req.name \notin lookPath)
        => /\ result.kind = "ok" /\ ~result.found
           /\ result.path = <<>> /\ result.version = <<>>
           /\ probes = <<>>
    /\ reader = NoReader

\* C23 as stated: which probes a binary it found with --version, -version,
\* version, -V in that order, each probe returning within its 3-second
\* timeout, stops at the first probe that yields output and returns the first
\* non-blank line of it, trimmed and cut to at most 200 characters; version
\* is empty only if no probe yields output; a binary not found is answered
\* with found = false, an empty path and no probe.
C23_VersionProbe ==
    /\ WhichCall => (ProbedInOrder /\ \A i \in 1..Len(probes) : ~probes[i].held)
    /\ WhichFound =>
           /\ result.found
           /\ result.path = LookPath(req.name, lookPath).path
           /\ IF Yields(probes[Len(probes)])
              THEN result.version =
                       FirstChars(DecodeUTF8(versionLines(probes[Len(probes)].output)[1]), 200)
              ELSE Len(probes) = Len(VersionFlags) /\ result.version = <<>>
    /\ NotFoundAnswer

\* C23 in bytes: the flags are tried in that order on the binary found, each
\* under a 3-second timeout, up to the first probe that exits with code 0
\* and prints a line that is not blank; version is the first such line,
\* trimmed and cut to at most 200 bytes, as JSON text, and is empty only if
\* no probe yields output; a binary not found gets found = false, an empty
\* path and no probe.
C23_VersionProbeBytes ==
    /\ WhichCall => ProbedInOrder
    /\ WhichFound =>
           /\ result.found
           /\ result.path = LookPath(req.name, lookPath).path
           /\ IF Yields(probes[Len(probes)])
              THEN result.version =
                       DecodeUTF8(FirstChars(versionLines(probes[Len(probes)].output)[1], 200))
              ELSE Len(probes) = Len(VersionFlags) /\ result.version = <<>>
    /\ NotFoundAnswer

\* the third probe printed a line of 201 bytes after two probes that yielded
\* nothing; version is its first 200 bytes
C23_Witness ==
    /\ WhichFound
    /\ Len(probes) = 3
    /\ probes[1].err = "exit"
    /\ probes[2].output = <<"\n", " ", " ", "\n">>
    /\ Len(versionLines(probes[3].output)[1]) = 201
    /\ result.version = Rep("b", 200)

\* the caller's scope ended (by its deadline or by cancellation) while the
\* child ran, and the call is over
ScopeEndedWhileRunning == pc = "done" /\ (proc.firedRunning \/ proc.cancelRunning)

\* C24: when the caller's scope is cancelled or expires while the child runs,
\* the child is ended and the call returns the deadline outcome: a result, not
\* an error, with timed_out = true, exit_code = -1 and the output buffered.
C24_CallerScopeEnds ==
    ScopeEndedWhileRunning
        => /\ proc.st \in {"killed", "exited"}
           /\ result.kind = "ok"
           /\ result.timed_out
           /\ result.exit_code = -1
           /\ UpToCap(result.stdout, stdout)
           /\ UpToCap(result.stderr, stderr)

\* C24 for a cancelled scope, as the code has it: the child is ended, and the
\* call fails or returns a result with timed_out = false.
C24_CancelIsNoTimeout ==
    (pc = "done" /\ proc.cancelRunning)
        => /\ proc.st \in {"killed", "exited"}
           /\ \/ result.kind = "error"
              \/ /\ result.kind = "ok"
                 /\ ~result.timed_out
                 /\ result.exit_code = runErr(proc).code

\* the caller cancelled, the child was killed, and the result is no timeout
C24_Witness ==
    /\ pc = "done" /\ proc.cancelRunning /\ proc.st = "killed"
    /\ Returned /\ ~result.timed_out /\ result.exit_code = -1

\* a get_env call has returned and exactly one set_env call, the last one,
\* was served between its start and its return
Raced == reader.st = "done" /\ setCount = reader.count0 + 1 /\ envOut.tool = "set_env"

\* the values the key (bytes) has in the lines of table
ValuesIn(table, key) ==
    {EntryValue(table[i]) : i \in {j \in 1..Len(table) : EntryKey(table[j]) = key}}

\* the complete values of the written key: the one stored before the write
\* and, when the write succeeded, the one written
OldOrNew ==
    ValuesIn(envOut.before, EncodeUTF8(envOut.key))
        \cup (IF envOut.out.kind = "ok" THEN {EncodeUTF8(envOut.value)} ELSE {})

\* C25: when a set_env writing key K and a get_env reading K run concurrently,
\* every entry the read returns for K holds the complete value stored before
\* the write or the complete value written, masked or literal by the
\* redaction rule, never a mixture or a part.
C25_ReadSeesOldOrNew ==
    Raced =>
        \A i \in 1..Len(reader.out.variables) :
            LET e == reader.out.variables[i]
            IN  EncodeUTF8(e.key) = EncodeUTF8(envOut.key)
                    => \E v \in OldOrNew :
                           e = envEntryOf(EncodeUTF8(envOut.key), v,
                                          reader.in.include_sensitive)

\* a read of TOKEN, X, TOKEN that a write of TOKEN overtook: its first entry
\* is the mask of the old value, its last the mask of the new one
C25_Witness ==
    /\ Raced
    /\ envOut.key = <<"T","O","K","E","N">>
    /\ ~reader.in.include_sensitive
    /\ Len(reader.out.variables) = 3
    /\ reader.out.variables[1].value = <<"a","b","*","*","e","f">>
    /\ reader.out.variables[3].value = <<"a","b","*","d","e">>

\* the cwd of the request is given and is not an existing directory
CwdMissing(in) == in.cwd # <<>> /\ Abs(in.cwd) \notin ExistingDirs

\* the check of the request that fails first, in the order of the claim
FirstFailing(in) ==
    IF in.tool = "run_command"
    THEN IF in.cmd = <<>> THEN "cmd required"
         ELSE IF MatchesSomeRule(CommandLine(in)) THEN "denied"
         ELSE IF CwdMissing(in) THEN "cwd"
         ELSE "none"
    ELSE IF in.script = <<>> THEN "script required"
         ELSE IF Offending(in.script) # {} THEN "denied"
         ELSE IF CwdMissing(in) THEN "cwd"
         ELSE "none"

\* C26: run_command checks for an empty cmd, then the deny list, then the
\* working directory, then spawns; run_script checks for an empty script, then
\* its lines against the deny list, then resolves the shell, then checks the
\* working directory, then spawns.  The first check that fails is the error
\* of the call, and then no command is built and no process is started.
C26_CheckOrder ==
    (req.tool \in {"run_command", "run_script"})
        => IF FirstFailing(req) # "none"
           THEN /\ pc = "done"
                /\ result.kind = "error"
                /\ result.err = FirstFailing(req)
                /\ cmd = NoCmd
                /\ proc.st = "none"
           ELSE /\ Built
                /\ req.tool = "run_script"
                       => cmd.shell = resolveShell(req.shell, goos, lookPath).shell

\* a script with a denied line and a missing cwd is refused for the line
C26_Witness ==
    /\ req.tool = "run_script"
    /\ Offending(req.script) # {}
    /\ CwdMissing(req)
    /\ PolicyViolation
    /\ proc.st = "none"

\* C27: a run_command or run_script call starts at most one child and reports
\* its outcome once: a child is started only by a call that has started none,
\* and once the call has its outcome (a result or a failure, after a timeout,
\* a spawn failure or a nonzero exit) nothing follows but its return to the
\* caller with that outcome.
C27_OneChildOneOutcome ==
    [][ /\ (proc'.st = "running" /\ proc.st # "running")
            => (pc = "prepared" /\ proc.st = "none" /\ ~proc.startErr)
        /\ (pc = "done" /\ req.tool \in {"run_command", "run_script"})
            => (pc' = "idle" /\ proc'.st = "none")
        /\ (pc \in {"prepared", "running"}) => pc' \in {"prepared", "running", "done"}
        /\ (pc = "running") => pc' # "prepared" ]_vars

\* a call whose child was killed at the deadline has its one outcome
C27_Witness ==
    /\ pc = "done" /\ proc.st = "killed" /\ proc.reaped /\ ctxErr = "DeadlineExceeded"
    /\ result.kind = "ok" /\ result.exit_code = -1

\* what the table holds for key when only set_env has written to it
WrittenOrInitial(key) ==
    IF key \in DOMAIN written
    THEN Present(EncodeUTF8(written[key]))
    ELSE LookupEnv(<<EnvEntry(KPWD, <<"/">>), EnvEntry(KX, <<"0">>)>>, key)

\* C28: run_command and run_script never modify the process-wide environment
\* table.  Every step that is not a set_env leaves the table as it is, so what
\* a lookup of any key returns, the override keys included, is what set_env
\* last wrote or the initial value; and the child of a request without
\* overrides sees the table (with PWD set to its cwd on a POSIX host), not the
\* overrides of another request.
C28_EnvironmentFrame ==
    /\ [][setCount' = setCount => environ' = environ]_vars
    /\ [](\A k \in ObservedKeys : LookupEnv(environ, k) = WrittenOrInitial(k))
    /\ []((proc.st # "none" /\ DOMAIN req.env_overrides = {})
             => \A k \in ObservedKeys :
                    \/ k = KPWD /\ req.cwd # <<>> /\ goos # "windows"
                    \/ LookupEnv(proc.envp, k) = LookupEnv(proc.base, k))

\* a call whose child ran with the overrides X = 2 and Y = 2 is over, and the
\* table still has X = 0 and no Y
C28_Witness ==
    /\ pc = "done"
    /\ proc.st = "exited"
    /\ DOMAIN req.env_overrides = {KX, KY}
    /\ LookupEnv(proc.envp, KX) = Present(<<"2">>)
    /\ LookupEnv(environ, KX) = Present(<<"0">>)
    /\ ~LookupEnv(environ, KY).exists

\* the command line of the i-th probe: the resolved path and the flag
ProbeLine(i) == probes[i].path \o SP \o probes[i].flag

\* C29: which puts nothing to the deny list: for every name found on the
\* search path, a denied command word or not, it runs the binary it resolved
\* with the version flags, at least once and at most four times, and answers
\* found = true, never a policy violation.
C29_WhichSkipsDenyList ==
    WhichFound
        => /\ Len(probes) \in 1..4
           /\ \A i \in 1..Len(probes) :
                  probes[i].path = <<"/","u","s","r","/","b","i","n","/">> \o req.name
           /\ result.kind = "ok"
           /\ result.found

\* which ran reboot four times, each with a command line run_command refuses
C29_Witness ==
    /\ WhichFound
    /\ req.name = <<"r","e","b","o","o","t">>
    /\ Len(probes) = 4
    /\ \A i \in 1..4 : MatchesSomeRule(ProbeLine(i))
    /\ \A i \in 1..4 :
           isDenied(fullCmdOf([cmd |-> probes[i].path, args |-> <<probes[i].flag>>])).blocked

RECURSIVE Fields(_)
\* the words of s: its maximal runs of characters that are not whitespace
Fields(s) ==
    LET t  == TrimLeft(s)
        ws == {i \in 1..Len(t) : t[i] \in SpaceChars}
        e  == IF ws = {} THEN Len(t) + 1 ELSE CHOOSE i \in ws : \A j \in ws : i <= j
    IN  IF t = <<>> THEN <<>>
        ELSE <<SubSeq(t, 1, e - 1)>> \o Fields(SubSeq(t, e, Len(t)))

\* a run_command request for rm with the flags -rf or -fr and the root
RootDelete(in) ==
    /\ in.tool = "run_command"
    /\ in.cmd = <<"r","m">>
    /\ Len(in.args) >= 2
    /\ in.args[1] \in {<<"-","r","f">>, <<"-","f","r">>}
    /\ in.args[2] = <<"/">>

\* the arguments of the request after the root, joined
Extras(in) == Join(SubSeq(in.args, 3, Len(in.args)), SP)

\* the line that was refused
RefusedLine == IF req.tool = "run_command" THEN CommandLine(req) ELSE result.line

==========================================================================
